---- MODULE Spec2Model ----
(***************************************************************************)
(* Schedule cache and service-state resolution of doluMu.                  *)
(*                                                                         *)
(*   src/src/api/services/schedule_service.py  IETTScheduleService         *)
(*   src/src/api/services/status_service.py    IETTStatusService           *)
(*                                                                         *)
(* Requests are served by worker threads, so every handler is a process    *)
(* whose steps are its accesses to shared state: the in-process TTL cache, *)
(* the persistent table bus_schedule_cache and the upstream provider.      *)
(* bus_schedule_cache_service (services/bus_schedule_cache.py) is not part *)
(* of the sources at hand: its operations are modelled from the design     *)
(* document and are marked so below.                                       *)
(***************************************************************************)
EXTENDS Integers, Sequences, FiniteSets, TLC

VARIABLES
    today,      \* calendar day (day number; Weekday(today) is its weekday)
    now,        \* monotonic clock of the TTL caches, in seconds
    mem,        \* _schedule_cache: key -> NoEntry or [value, expires]
    db,         \* table bus_schedule_cache: a set of rows
    scache,     \* _status_cache: line -> NoEntry or [value, expires]
    pc,         \* per worker: position in its handler
    op,         \* per worker: handler being run ("none", "schedule", "status", "clear")
    arg,        \* per worker: line_code argument (AllLines for clear_cache(None))
    loc,        \* per worker: local variables of get_schedule
    sloc,       \* per worker: local variables of get_line_status
    hist,       \* per worker: what this call has done so far (observation only)
    fresh,      \* per line: last payload a call fetched from upstream and cached
    cfg,        \* the configuration of the run: lines and workers in use
    rloc,       \* per worker: local variables of the request handler (router)
    lru         \* per cache: its keys, least recently used first

vars == <<today, now, mem, db, scache, pc, op, arg, loc, sloc, hist, fresh, cfg,
          rloc, lru>>

-----------------------------------------------------------------------------
(* Bounds of the model *)

\* a run over several days starts on one of StartDays (day numbers count
\* from a Monday: 2 is a Wednesday, 4 a Friday) and sees at most DaySpan
\* midnights
DaySpan == 2
\* the clock advances at most MaxTicks times
MaxTicks == 1
\* the pooled line has the first PoolSize members of METROBUS_POOL
PoolSize == 2

(* Program constants *)

\* TTLCache(maxsize=2000, ttl=300) and TTLCache(maxsize=500, ttl=300)
ScheduleTTL == 300
StatusTTL == 300
\* get_cached_schedule(..., max_stale_days=2)
MaxStaleDays == 2
\* the pooled forecast: get_cached_schedule(..., max_stale_days=7), a date
\* at most 7 days ahead, the capacity of a vehicle, the trips per hour
\* assumed without a schedule
ForecastMaxStaleDays == 7
ForecastMaxDaysAhead == 7
ScheduleMaxSize == 2000
StatusMaxSize == 500
MaxEntries == 2
METROBUS_CAPACITY == 193
METROBUS_MIN_TRIPS_FALLBACK == 6

AllWorkers == {"w1", "w2", "w3"}
AllLinesSet == {"19", "15F"}
AllLines == "*"          \* clear_cache(line_code=None)
StartDays == {2, 3, 4}
\* the clock advances by a TTL at a time: an entry is read in the instant of
\* its write or at the instant it expires
TickStep == ScheduleTTL
MaxNow == MaxTicks * TickStep
\* Python's None, for values that are records or strings
None == [none |-> TRUE]
NoneStr == "None"
NoEntry == [absent |-> TRUE]

-----------------------------------------------------------------------------
(* Calendar *)

\* date.weekday(): Monday = 0 ... Sunday = 6
Weekday(d) == d % 7

\* IETTScheduleService._get_day_type: "I" weekday, "C" Saturday, "P" Sunday
_get_day_type(weekday) ==
    IF weekday = 6 THEN "P"
    ELSE IF weekday = 5 THEN "C"
    ELSE "I"

\* bus_schedule_cache_service.day_type_for_date
day_type_for_date(d) ==
    LET wd == Weekday(d) IN
    IF wd <= 4 THEN "I" ELSE IF wd = 5 THEN "C" ELSE "P"

-----------------------------------------------------------------------------
(* Times of day.  A time string "HH:MM" is the record of its two fields.   *)

TimeStr(h, m) == [hh |-> h, mm |-> m]

\* IETTStatusService._parse_time: split on ':', int() both fields,
\* time(hour, minute); None when time() rejects the fields
_parse_time(s) ==
    IF s.hh \in 0..23 /\ s.mm \in 0..59
    THEN [hour |-> s.hh, minute |-> s.mm]
    ELSE None

\* time.strftime("%H:%M")
strftime(t) == TimeStr(t.hour, t.minute)

\* order of datetime.time values
TimeLE(a, b) == a.hour < b.hour \/ (a.hour = b.hour /\ a.minute <= b.minute)
TimeLT(a, b) == a.hour < b.hour \/ (a.hour = b.hour /\ a.minute < b.minute)

\* order of zero-padded "HH:MM" strings
StrLT(a, b) == a.hh < b.hh \/ (a.hh = b.hh /\ a.mm < b.mm)

RECURSIVE SortedStrs(_)
SortedStrs(S) ==
    IF S = {} THEN <<>>
    ELSE LET lo == CHOOSE x \in S : \A y \in S : x = y \/ StrLT(x, y)
         IN <<lo>> \o SortedStrs(S \ {lo})

-----------------------------------------------------------------------------
(* The in-process TTL caches (cachetools.TTLCache).                        *)

\* key of _schedule_cache: f"{line_code}_{target_date.isoformat()}"
cache_key(line_code, target_date) == <<line_code, target_date>>

EmptyCache(keys) == [k \in keys |-> NoEntry]

\* TTLCache.__contains__: present and timer() < expires
CacheContains(c, k) == c[k] # NoEntry /\ now < c[k].expires

\* TTLCache.expire: drop every entry whose time has come
CacheExpire(c) ==
    [k \in DOMAIN c |->
        IF c[k] # NoEntry /\ ~(now < c[k].expires) THEN NoEntry ELSE c[k]]

\* TTLCache.__setitem__: expire, then store with expires = timer() + ttl
CacheSet(c, k, v, ttl) ==
    [CacheExpire(c) EXCEPT ![k] = [value |-> v, expires |-> now + ttl]]

\* TTLCache.pop(key, None)
CachePop(c, k) == [c EXCEPT ![k] = NoEntry]

\* the keys of order that still have an entry in c, in their order
Linked(order, c) == SelectSeq(order, LAMBDA k : c[k] # NoEntry)

\* TTLCache.__getitem__ and __setitem__ move the key to the recent end
Touched(order, c, k) ==
    LET others == SelectSeq(order, LAMBDA x : c[x] # NoEntry /\ x # k)
    IN IF c[k] # NoEntry THEN Append(others, k) ELSE others

\* a full cache gives up its most recently used entry
CacheEvict_MostRecent(c, order, k, maxsize) ==
    LET live == CacheExpire(c)
        linked == Linked(order, live)
    IN IF live[k] = NoEntry /\ Len(linked) >= maxsize
       THEN [live EXCEPT ![linked[Len(linked)]] = NoEntry]
       ELSE live

\* Cache.__setitem__ under TTLCache: expired entries go first; a new key
\* that finds the cache full then discards the least recently used entry
CacheEvict(c, order, k, maxsize) ==
    LET live == CacheExpire(c)
        linked == Linked(order, live)
    IN IF live[k] = NoEntry /\ Len(linked) >= maxsize
       THEN [live EXCEPT ![Head(linked)] = NoEntry]
       ELSE live

-----------------------------------------------------------------------------
(* The upstream schedule provider.                                         *)

\* a raw row: direction (SYON), time string (DT), day type (SGUNTIPI)
RawRow(dir, t, dt) == [direction |-> dir, time |-> t, day_type |-> dt]

\* two timetables the provider may answer with; neither runs on Sundays,
\* and the second one holds a malformed time
RawA == { RawRow("G", TimeStr(6, 0), "I"), RawRow("D", TimeStr(23, 30), "I"),
          RawRow("G", TimeStr(8, 0), "C") }
RawB == { RawRow("G", TimeStr(5, 30), "I"), RawRow("G", TimeStr(7, 15), "I"),
          RawRow("D", TimeStr(25, 0), "I"), RawRow("D", TimeStr(9, 0), "C") }
RawData == {RawA, RawB}

\* the ways a fetch fails: a timeout or transport error, an empty or
\* unparseable payload
UpstreamErrors == {"UpstreamTimeout", "UpstreamParseError"}

\* bus_schedule_cache_service.fetch_schedule_from_api: the rows, or raises
UpstreamOutcomes ==
    {[ok |-> TRUE, rows |-> r, error |-> NoneStr] : r \in RawData}
    \cup {[ok |-> FALSE, rows |-> {}, error |-> e] : e \in UpstreamErrors}

\* the tolerant time parser of the payload builder: a malformed entry is
\* skipped
ParseableTime(s) == _parse_time(s) # None

DirectionTimes(rows, dir, dt) ==
    SortedStrs({r.time : r \in {x \in rows : x.direction = dir
                                             /\ x.day_type = dt
                                             /\ ParseableTime(x.time)}})

\* bus_schedule_cache_service.build_filtered_payload
build_filtered_payload(raw_rows, target_date) ==
    LET dt == day_type_for_date(target_date)
        g == DirectionTimes(raw_rows, "G", dt)
        d == DirectionTimes(raw_rows, "D", dt)
        has == g # <<>> \/ d # <<>>
    IN [G |-> g, D |-> d,
        has_service_today |-> has,
        data_status |-> IF has THEN "OK"
                        ELSE IF raw_rows # {} THEN "NO_SERVICE_DAY"
                        ELSE "NO_DATA",
        day_type |-> dt,
        valid_for |-> target_date]

\* the sentinel says that the day has no service
failed_payload_AsNoService(day_type, target_date) ==
    [G |-> <<>>, D |-> <<>>,
     has_service_today |-> FALSE,
     data_status |-> "NO_SERVICE_DAY",
     day_type |-> day_type,
     valid_for |-> target_date]

\* get_schedule's failed_payload
failed_payload(day_type, target_date) ==
    [G |-> <<>>, D |-> <<>>,
     has_service_today |-> TRUE,
     data_status |-> "FETCH_FAILED",
     day_type |-> day_type,
     valid_for |-> target_date]

\* the failure sentinel: empty directions and FETCH_FAILED
IsSentinel(x) ==
    IF x = None THEN FALSE
    ELSE x.G = <<>> /\ x.D = <<>> /\ x.data_status = "FETCH_FAILED"

-----------------------------------------------------------------------------
(* The persistent table bus_schedule_cache.                                *)

Row(line_code, valid_for, day_type, payload, status, error_message) ==
    [line_code |-> line_code, valid_for |-> valid_for, day_type |-> day_type,
     payload |-> payload, source_status |-> status,
     error_message |-> error_message]

SameKey(r, line_code, valid_for, day_type) ==
    r.line_code = line_code /\ r.valid_for = valid_for /\ r.day_type = day_type

\* an update that writes the payload of an existing row and leaves its
\* status and message as they were
store_schedule_Partial(rows, line_code, valid_for, day_type, payload, status, error_message) ==
    LET old == {r \in rows : SameKey(r, line_code, valid_for, day_type)} IN
    IF old = {}
    THEN rows \cup {Row(line_code, valid_for, day_type, payload, status, error_message)}
    ELSE (rows \ old) \cup {[r EXCEPT !.payload = payload] : r \in old}

\* an insert that never looks for the row it replaces
store_schedule_Insert(rows, line_code, valid_for, day_type, payload, status, error_message) ==
    rows \cup {Row(line_code, valid_for, day_type, payload, status, error_message)}

\* bus_schedule_cache_service.store_schedule: upsert on
\* UNIQUE(line_code, valid_for, day_type), in one transaction
store_schedule(rows, line_code, valid_for, day_type, payload, status, error_message) ==
    {r \in rows : ~SameKey(r, line_code, valid_for, day_type)}
    \cup {Row(line_code, valid_for, day_type, payload, status, error_message)}

\* a lookup that serves the row of the day whatever its status
get_cached_schedule_AnyStatus(rows, line_code, valid_for, max_stale_days) ==
    LET dt == day_type_for_date(valid_for)
        exact == {r \in rows : SameKey(r, line_code, valid_for, dt)}
    IN IF exact # {}
       THEN LET r == CHOOSE x \in exact : TRUE
            IN [payload |-> r.payload, is_stale |-> FALSE, record |-> r]
       ELSE [payload |-> None, is_stale |-> FALSE, record |-> None]

\* bus_schedule_cache_service.get_cached_schedule:
\* (payload, is_stale, record); the row of valid_for when its status is
\* SUCCESS, else the latest SUCCESS row of the same day type no more than
\* max_stale_days older, else (None, False, None)
get_cached_schedule(rows, line_code, valid_for, max_stale_days) ==
    LET dt == day_type_for_date(valid_for)
        good == {r \in rows : r.line_code = line_code /\ r.day_type = dt
                              /\ r.source_status = "SUCCESS"}
        exact == {r \in good : r.valid_for = valid_for}
        stale == {r \in good : r.valid_for < valid_for
                               /\ valid_for - r.valid_for <= max_stale_days}
    IN IF exact # {}
       THEN LET r == CHOOSE x \in exact : TRUE
            IN [payload |-> r.payload, is_stale |-> FALSE, record |-> r]
       ELSE IF stale # {}
       THEN LET r == CHOOSE x \in stale : \A y \in stale : y.valid_for <= x.valid_for
            IN [payload |-> r.payload, is_stale |-> TRUE, record |-> r]
       ELSE [payload |-> None, is_stale |-> FALSE, record |-> None]


-----------------------------------------------------------------------------
(* Workers.                                                                *)

Workers == cfg.workers
Lines == cfg.lines

\* maxsize of a cache: the code's, or MaxEntries in a configuration that
\* fills its caches
MaxSize(maxsize) == IF cfg.cache = "small" THEN MaxEntries ELSE maxsize

\* _schedule_cache[cache_key] = payload
ScheduleCacheWrite(k, payload) ==
    /\ mem' = CacheSet(CacheEvict(mem, lru.schedule, k, MaxSize(ScheduleMaxSize)),
                       k, payload, ScheduleTTL)
    /\ lru' = [lru EXCEPT !.schedule = Touched(@, mem', k)]

\* _status_cache[line_code] = result
StatusCacheWrite(k, result) ==
    /\ scache' = CacheSet(CacheEvict(scache, lru.status, k, MaxSize(StatusMaxSize)),
                          k, result, StatusTTL)
    /\ lru' = [lru EXCEPT !.status = Touched(@, scache', k)]

\* the upstream answers a configuration draws from: all of them, or one
\* timetable and one failure
UpstreamSeen ==
    IF cfg.inputs = "few"
    THEN {o \in UpstreamOutcomes : o.rows \in {{}, RawA} /\ o.error \in {NoneStr, "UpstreamTimeout"}}
    ELSE UpstreamOutcomes

\* locals of get_schedule: target_date, the payload in hand, the exception
\* caught, what get_cached_schedule returned, the value returned
InitLoc ==
    [target_date |-> 0, payload |-> None, exc |-> NoneStr,
     record |-> None, is_stale |-> FALSE, ret |-> None]

\* what a get_schedule call has done: upstream called, upstream failed,
\* persistent store accessed, its row written; the payload that was fresh in
\* memory when the call was made; the row of the day before that the lookup
\* found beside no row of the day itself; the lookup's is_stale
InitHist ==
    [upstream |-> FALSE, up_failed |-> FALSE, used_db |-> FALSE,
     stored |-> FALSE, saw_fresh |-> None, yrow |-> None, is_stale |-> FALSE,
     fetched |-> None, write_failed |-> FALSE, read_failed |-> FALSE,
     saw_sentinel |-> FALSE, failed_row |-> FALSE]

\* locals of get_line_status: alert_messages, the provider's answer or the
\* way it failed, the time _check_operation_hours read, whether the result
\* came from the cache, operation_info, the value returned
InitSloc ==
    [alerts |-> <<>>, feed |-> <<>>, alert_error |-> NoneStr,
     alert_clock |-> None, tod |-> None,
     cached |-> FALSE, operation_info |-> None, result |-> None]

\* locals of the request handlers: the service window and the in_service
\* marks of the hours done so far (get_daily_forecast); the position in
\* METROBUS_POOL, the combined G and D, what get_schedule returned for each
\* member so far and the response (get_line_schedule); what the pooled
\* forecast was asked, read and answered (get_daily_forecast); the keys
\* that had an entry when clear_cache was called (observation only)
InitRloc ==
    [service_hours |-> None, marks |-> <<>>,
     idx |-> 0, G |-> <<>>, D |-> <<>>, seen |-> <<>>, response |-> None,
     forecast |-> None, had |-> {}, deleted |-> {}, rolled_back |-> FALSE,
     direction |-> NoneStr, metro_line |-> None, resolved |-> FALSE]

\* return: the locals go, the value and the date it was resolved for stay
Returned(l, value) == [InitLoc EXCEPT !.target_date = l.target_date, !.ret = value]
\* an exception leaves get_schedule
Raised(l, e) == [InitLoc EXCEPT !.target_date = l.target_date, !.exc = e]

\* the payload a call of line l made now would expect from memory
FreshFor(l) ==
    IF fresh[l] # NoEntry /\ fresh[l].date = today /\ now < fresh[l].expires
    THEN fresh[l].value ELSE None

\* get_schedule, lines 229-235: the date, the key and the membership test
EnterGetSchedule(p, l) ==
    /\ loc' = [loc EXCEPT ![p] = [InitLoc EXCEPT !.target_date = today]]
    /\ hist' = [hist EXCEPT ![p] =
                  [InitHist EXCEPT
                      !.saw_fresh = FreshFor(l),
                      !.saw_sentinel = /\ CacheContains(mem, cache_key(l, today))
                                       /\ IsSentinel(mem[cache_key(l, today)].value)]]
    /\ pc' = [pc EXCEPT ![p] =
                IF CacheContains(mem, cache_key(l, today))
                THEN "mem_read" ELSE "db_lookup"]

\* a worker is free before its first call and after a call has returned
\* ("done") or raised ("raised"); what the call returned stays on view
Free(p) == pc[p] \in {"idle", "done", "raised"}

\* where a worker goes when get_schedule returns, and when it raises:
\* back to its caller, which is the request, _check_operation_hours or the
\* loop over the pool (whose handler turns an exception into a 500)
AfterReturn(p) ==
    IF op[p] = "status" THEN "s_hours"
    ELSE IF op[p] = "pool" THEN "p_extend"
    ELSE IF op[p] = "hours" THEN "h_window" ELSE "done"
\* the exception of get_schedule leaves its caller too
AfterRaise_Propagates(p) == "raised"
AfterRaise(p) ==
    IF op[p] = "status" THEN "s_hours"
    ELSE IF op[p] = "hours" THEN "h_window" ELSE "raised"

GetSchedule_Begin(p, l) ==
    /\ Free(p)
    /\ "schedule" \in cfg.ops
    /\ op' = [op EXCEPT ![p] = "schedule"]
    /\ arg' = [arg EXCEPT ![p] = l]
    /\ EnterGetSchedule(p, l)
    /\ rloc' = [rloc EXCEPT ![p] = InitRloc]
    /\ UNCHANGED <<today, now, mem, db, scache, sloc, fresh, cfg, lru>>

\* line 235: return _schedule_cache[cache_key]; KeyError when the entry has
\* gone since the membership test
GetSchedule_MemRead(p) ==
    /\ pc[p] = "mem_read"
    /\ LET k == cache_key(arg[p], loc[p].target_date) IN
       /\ IF CacheContains(mem, k)
          THEN /\ loc' = [loc EXCEPT ![p] = Returned(loc[p], mem[k].value)]
               /\ pc' = [pc EXCEPT ![p] = AfterReturn(p)]
          ELSE /\ loc' = [loc EXCEPT ![p] = Raised(loc[p], "KeyError")]
               /\ pc' = [pc EXCEPT ![p] = AfterRaise(p)]
       /\ lru' = [lru EXCEPT !.schedule = Touched(@, mem, k)]
    /\ UNCHANGED <<today, now, mem, db, scache, op, arg, sloc, hist, fresh, cfg, rloc>>

\* the row of line_code for the day before d, when there is one and none
\* for d itself
YesterdayRow(rows, line_code, d) ==
    LET y == {r \in rows : r.line_code = line_code /\ r.valid_for = d - 1}
        t == {r \in rows : r.line_code = line_code /\ r.valid_for = d}
    IN IF y # {} /\ t = {} THEN CHOOSE r \in y : TRUE ELSE None

\* a stale payload is as good as none
ServeCached_FreshOnly(got) == got.payload # None /\ ~got.is_stale

\* line 246: if cached_payload
ServeCached(got) == got.payload # None

\* lines 238-246 and 255-265: the persistent lookup; a read error leaves
\* through the finally clause, a miss sends the request to the provider
GetSchedule_DbLookup(p) ==
    /\ pc[p] = "db_lookup"
    /\ \/ LET got == get_cached_schedule(db, arg[p], loc[p].target_date, MaxStaleDays) IN
          /\ loc' = [loc EXCEPT ![p].payload = got.payload,
                                ![p].is_stale = got.is_stale,
                                ![p].record = got.record]
          /\ pc' = [pc EXCEPT ![p] = IF ServeCached(got) THEN "db_hit" ELSE "fetch_wait"]
          /\ hist' = [hist EXCEPT ![p].used_db = TRUE,
                                  ![p].upstream = ~ServeCached(got),
                                  ![p].yrow = YesterdayRow(db, arg[p], loc[p].target_date),
                                  ![p].is_stale = got.is_stale,
                                  ![p].failed_row =
                                      \E r \in db :
                                          /\ SameKey(r, arg[p], loc[p].target_date,
                                                     day_type_for_date(loc[p].target_date))
                                          /\ r.source_status = "FAILED"]
       \/ /\ loc' = [loc EXCEPT ![p] = Raised(loc[p], "PersistenceReadError")]
          /\ pc' = [pc EXCEPT ![p] = AfterRaise(p)]
          /\ hist' = [hist EXCEPT ![p].used_db = TRUE, ![p].read_failed = TRUE]
    /\ UNCHANGED <<today, now, mem, db, scache, op, arg, sloc, fresh, cfg, rloc, lru>>

\* lines 247-254: the cached payload goes to memory and is returned
GetSchedule_DbHit(p) ==
    /\ pc[p] = "db_hit"
    /\ ScheduleCacheWrite(cache_key(arg[p], loc[p].target_date), loc[p].payload)
    /\ loc' = [loc EXCEPT ![p] = Returned(loc[p], loc[p].payload)]
    /\ pc' = [pc EXCEPT ![p] = AfterReturn(p)]
    /\ UNCHANGED <<today, now, db, scache, op, arg, sloc, hist, fresh, cfg, rloc>>

\* every day is a working day
ScheduleDayType_Weekday(p) == "I"

\* line 260: day_type of the row to store
ScheduleDayType(p) == day_type_for_date(loc[p].target_date)

\* lines 265-266 and 280: the provider's answer; rows become the payload,
\* anything raised is caught
GetSchedule_FetchReturn(p) ==
    /\ pc[p] = "fetch_wait"
    /\ \E out \in UpstreamSeen :
        IF out.ok
        THEN /\ loc' = [loc EXCEPT ![p].payload =
                            build_filtered_payload(out.rows, loc[p].target_date)]
             /\ pc' = [pc EXCEPT ![p] = "store_ok"]
             /\ hist' = [hist EXCEPT ![p].fetched =
                             build_filtered_payload(out.rows, loc[p].target_date)]
        ELSE /\ loc' = [loc EXCEPT ![p].exc = out.error]
             /\ pc' = [pc EXCEPT ![p] = "store_failed"]
             /\ hist' = [hist EXCEPT ![p].up_failed = TRUE]
    /\ UNCHANGED <<today, now, mem, db, scache, op, arg, sloc, fresh, cfg, rloc, lru>>

\* lines 268-275: the arguments of the SUCCESS upsert
SuccessRow(p) ==
    Row(arg[p], loc[p].target_date, ScheduleDayType(p), loc[p].payload,
        "SUCCESS", NoneStr)

\* lines 268-275 and 280: store_schedule(status='SUCCESS'); when it raises
\* the transaction is rolled back and the except clause takes over
GetSchedule_StoreSuccess(p) ==
    /\ pc[p] = "store_ok"
    /\ \/ LET r == SuccessRow(p) IN
          /\ db' = store_schedule(db, r.line_code, r.valid_for, r.day_type,
                                  r.payload, r.source_status, r.error_message)
          /\ hist' = [hist EXCEPT ![p].used_db = TRUE, ![p].stored = TRUE]
          /\ pc' = [pc EXCEPT ![p] = "cache_ok"]
          /\ loc' = loc
       \/ /\ db' = db
          /\ hist' = [hist EXCEPT ![p].used_db = TRUE, ![p].write_failed = TRUE]
          /\ loc' = [loc EXCEPT ![p].exc = "PersistenceWriteError"]
          /\ pc' = [pc EXCEPT ![p] = "store_failed"]
    /\ UNCHANGED <<today, now, mem, scache, op, arg, sloc, fresh, cfg, rloc, lru>>

\* lines 277-278: the payload goes to memory and is returned
GetSchedule_CacheSuccess(p) ==
    /\ pc[p] = "cache_ok"
    /\ ScheduleCacheWrite(cache_key(arg[p], loc[p].target_date), loc[p].payload)
    /\ fresh' = [fresh EXCEPT ![arg[p]] =
                    [value |-> loc[p].payload, expires |-> now + ScheduleTTL,
                     date |-> loc[p].target_date]]
    /\ loc' = [loc EXCEPT ![p] = Returned(loc[p], loc[p].payload)]
    /\ pc' = [pc EXCEPT ![p] = AfterReturn(p)]
    /\ UNCHANGED <<today, now, db, scache, op, arg, sloc, hist, cfg, rloc>>

\* lines 285-305: the arguments of the FAILED upsert
FailedRow(p) ==
    Row(arg[p], loc[p].target_date, ScheduleDayType(p),
        failed_payload(ScheduleDayType(p), loc[p].target_date),
        "FAILED", loc[p].exc)

\* the upsert's exception leaves get_schedule
SentinelStoreRaised_Propagates == "raised"

\* where get_schedule goes when the upsert of the sentinel raises:
\* lines 306-307 swallow it
SentinelStoreRaised == "cache_failed"

\* lines 283-307: the sentinel is built and persisted for observability
GetSchedule_StoreFailed(p) ==
    /\ pc[p] = "store_failed"
    /\ loc' = [loc EXCEPT ![p].payload =
                  failed_payload(ScheduleDayType(p), loc[p].target_date)]
    /\ \/ LET r == FailedRow(p) IN
          /\ db' = store_schedule(db, r.line_code, r.valid_for, r.day_type,
                                  r.payload, r.source_status, r.error_message)
          /\ hist' = [hist EXCEPT ![p].used_db = TRUE, ![p].stored = TRUE]
          /\ pc' = [pc EXCEPT ![p] = "cache_failed"]
       \/ /\ db' = db
          /\ hist' = [hist EXCEPT ![p].used_db = TRUE]
          /\ pc' = [pc EXCEPT ![p] = SentinelStoreRaised]
    /\ UNCHANGED <<today, now, mem, scache, op, arg, sloc, fresh, cfg, rloc, lru>>

\* lines 309-310: the sentinel goes to memory and is returned
GetSchedule_CacheFailed(p) ==
    /\ pc[p] = "cache_failed"
    /\ ScheduleCacheWrite(cache_key(arg[p], loc[p].target_date), loc[p].payload)
    /\ loc' = [loc EXCEPT ![p] = Returned(loc[p], loc[p].payload)]
    /\ pc' = [pc EXCEPT ![p] = AfterReturn(p)]
    /\ UNCHANGED <<today, now, db, scache, op, arg, sloc, hist, fresh, cfg, rloc>>

-----------------------------------------------------------------------------
(* clear_cache and the environment.                                        *)

Cleared(l, target) == target = AllLines \/ target = l

\* a key clears the whole cache
ScheduleCleared_All(c, target) == EmptyCache(DOMAIN c)

\* clear_cache, lines 322-326
ScheduleCleared(c, target) ==
    IF target = AllLines
    THEN EmptyCache(DOMAIN c)
    ELSE CachePop(c, cache_key(target, today))

\* clear_cache, lines 320-326: the memory entry of today, or all of them
ClearCache_Memory(p, target) ==
    /\ Free(p)
    /\ "clear" \in cfg.ops
    /\ op' = [op EXCEPT ![p] = "clear"]
    /\ arg' = [arg EXCEPT ![p] = target]
    /\ mem' = ScheduleCleared(mem, target)
    /\ lru' = [lru EXCEPT !.schedule = Linked(@, mem')]
    /\ fresh' = [l \in DOMAIN fresh |-> IF Cleared(l, target) THEN NoEntry ELSE fresh[l]]
    /\ hist' = [q \in DOMAIN hist |->
                  IF q = p THEN InitHist
                  ELSE IF Cleared(arg[q], target)
                  THEN [hist[q] EXCEPT !.saw_fresh = None] ELSE hist[q]]
    /\ pc' = [pc EXCEPT ![p] = "clear_db"]
    /\ loc' = [loc EXCEPT ![p] = InitLoc]
    /\ rloc' = [rloc EXCEPT ![p] =
                  [InitRloc EXCEPT !.had = {k \in DOMAIN mem : CacheContains(mem, k)}]]
    /\ UNCHANGED <<today, now, db, scache, sloc, cfg>>

\* IETTStatusService.clear_cache, lines 342-347
StatusCleared(c, target) ==
    IF target = AllLines THEN EmptyCache(DOMAIN c) ELSE CachePop(c, target)

\* IETTStatusService.clear_cache: the entry of the line, or all of them
Status_ClearCache(p, target) ==
    /\ Free(p)
    /\ "clear" \in cfg.ops
    /\ op' = [op EXCEPT ![p] = "status_clear"]
    /\ arg' = [arg EXCEPT ![p] = target]
    /\ scache' = StatusCleared(scache, target)
    /\ lru' = [lru EXCEPT !.status = Linked(@, scache')]
    /\ rloc' = [rloc EXCEPT ![p] =
                  [InitRloc EXCEPT !.had = {k \in DOMAIN scache : CacheContains(scache, k)}]]
    /\ pc' = [pc EXCEPT ![p] = "done"]
    /\ loc' = [loc EXCEPT ![p] = InitLoc]
    /\ hist' = [hist EXCEPT ![p] = InitHist]
    /\ UNCHANGED <<today, now, mem, db, sloc, fresh, cfg>>

\* the delete removes the rows of today only
ScheduleRowsDeleted_TodayOnly(rows, target) ==
    {r \in rows : ~(Cleared(r.line_code, target) /\ r.valid_for = today)}

\* clear_cache, lines 331-334: the query over bus_schedules, filtered by
\* line_code when there is one, and its delete
ScheduleRowsDeleted(rows, target) ==
    {r \in rows : ~Cleared(r.line_code, target)}

\* clear_cache, lines 329-341: the rows of the line, of every date, are
\* deleted and the delete is committed; on an exception the transaction is
\* rolled back, a warning is logged and clear_cache returns
ClearCache_Db(p) ==
    /\ pc[p] = "clear_db"
    /\ \/ /\ db' = ScheduleRowsDeleted(db, arg[p])
          /\ rloc' = [rloc EXCEPT ![p].deleted = db \ db']
       \/ /\ db' = db
          /\ rloc' = [rloc EXCEPT ![p].rolled_back = TRUE]
    /\ pc' = [pc EXCEPT ![p] = "idle"]
    /\ op' = [op EXCEPT ![p] = "none"]
    /\ UNCHANGED <<today, now, mem, scache, arg, loc, sloc, hist, fresh, cfg, lru>>

\* time passes
Tick ==
    /\ now + TickStep <= MaxNow
    /\ now' = now + TickStep
    /\ fresh' = [l \in DOMAIN fresh |->
                    IF fresh[l] # NoEntry /\ now' < fresh[l].expires
                    THEN fresh[l] ELSE NoEntry]
    /\ UNCHANGED <<today, mem, db, scache, pc, op, arg, loc, sloc, hist, cfg, rloc, lru>>

\* midnight in Istanbul: today_istanbul() answers the next day
NextDay ==
    /\ today < cfg.first_day + cfg.day_span
    /\ today' = today + 1
    /\ fresh' = [l \in DOMAIN fresh |-> NoEntry]
    /\ UNCHANGED <<now, mem, db, scache, pc, op, arg, loc, sloc, hist, cfg, rloc, lru>>

-----------------------------------------------------------------------------
(* The alerts provider and the status resolver.                            *)

LineStatus_ACTIVE == "ACTIVE"
LineStatus_WARNING == "WARNING"
LineStatus_OUT_OF_SERVICE == "OUT_OF_SERVICE"

\* str.strip() and str.upper() on the line codes at hand
Strip(code) == IF code = " 15f " THEN "15f" ELSE code
Upper(code) == IF code = "15f" THEN "15F" ELSE code

\* one announcement (a Table element): HATKODU, MESAJ, GUNCELLEME_SAATI; a
\* missing element is None, a missing text is ""
Announcement(hatkodu, mesaj, guncelleme) ==
    [HATKODU |-> hatkodu, MESAJ |-> mesaj, GUNCELLEME_SAATI |-> guncelleme]

\* "Kayit Saati: HH:MM"
KayitSaati(h, m) == [kayit |-> TRUE, hh |-> h, mm |-> m]

\* what the alerts provider may answer with
Feeds ==
    { <<>>,
      << Announcement("15F", "Yol calismasi", KayitSaati(4, 9)) >>,
      << Announcement(" 15f ", "Guzergah degisikligi", None),
         Announcement("15FK", "Baska hat", KayitSaati(10, 0)),
         Announcement("15F", "Kaza", KayitSaati(23, 0)) >>,
      << Announcement("15F", "", KayitSaati(10, 0)),
         Announcement("15FK", "Baska hat", KayitSaati(25, 0)),
         Announcement(NoneStr, "Hat kodu yok", None) >> }

\* the ways the alerts fetch fails: requests.RequestException (transport
\* error, timeout), ET.ParseError, anything else
AlertErrors == {"RequestException", "ParseError", "Exception"}

AlertOutcomes ==
    {[ok |-> TRUE, feed |-> f, error |-> NoneStr] : f \in Feeds}
    \cup {[ok |-> FALSE, feed |-> <<>>, error |-> e] : e \in AlertErrors}

\* the times of day datetime.now() may answer with
ClockTimes ==
    { [hour |-> 3, minute |-> 0], [hour |-> 12, minute |-> 0],
      [hour |-> 23, minute |-> 45] }

\* the minutes of an hour that are looked at: the first and the last
MinutesSeen == {0, 59}

\* one announcement for the line at every hour of the day, and at an hour
\* that is none ("Kayit Saati: 24:00")
HourlyOutcomes ==
    {[ok |-> TRUE, error |-> NoneStr,
      feed |-> << Announcement("15F", "Duyuru", KayitSaati(h, m)) >>] :
        h \in 0..24, m \in MinutesSeen}

\* every hour of the day as the time of day
HourlyClocks == {[hour |-> h, minute |-> m] : h \in 0..23, m \in MinutesSeen}

\* the alert feeds and clock readings a configuration draws from: all of
\* them; the empty feed, one alert and one failure at noon; or one alert
\* of every hour at every hour
AlertsSeen ==
    IF cfg.inputs = "few"
    THEN {o \in AlertOutcomes :
            /\ Len(o.feed) <= 1
            /\ o.error \in {NoneStr, "RequestException"}}
    ELSE IF cfg.inputs = "hours" THEN HourlyOutcomes
    ELSE AlertOutcomes

ClocksSeen ==
    IF cfg.inputs = "few" THEN {[hour |-> 12, minute |-> 0]}
    ELSE IF cfg.inputs = "hours" THEN HourlyClocks
    ELSE ClockTimes

Minutes(t) == t.hour * 60 + t.minute

\* every update is dated yesterday
_parse_update_time_AlwaysYesterday(time_str, clock) ==
    IF time_str.kayit /\ time_str.hh \in 0..23 /\ time_str.mm \in 0..59
    THEN [minutes |-> time_str.hh * 60 + time_str.mm - 24 * 60]
    ELSE None

\* _parse_update_time, in minutes from today's midnight: today at HH:MM, or
\* yesterday when it is before 04:00 now and the time is 04:00 or later;
\* None when the text is none of "Kayit Saati: HH:MM"
_parse_update_time(time_str, clock) ==
    IF time_str.kayit /\ time_str.hh \in 0..23 /\ time_str.mm \in 0..59
    THEN LET at == time_str.hh * 60 + time_str.mm
         IN [minutes |-> IF clock.hour < 4 /\ time_str.hh >= 4
                         THEN at - 24 * 60 ELSE at]
    ELSE None

\* the comparison of line 172 without upper()
AlertMatches_CaseSensitive(table, line_code) ==
    /\ table.HATKODU # NoneStr
    /\ Strip(table.HATKODU) = line_code
    /\ table.MESAJ # ""

\* _fetch_alerts, lines 167-172: the announcement is for this line and has
\* a text
AlertMatches(table, line_code) ==
    /\ table.HATKODU # NoneStr
    /\ Upper(Strip(table.HATKODU)) = Upper(line_code)
    /\ table.MESAJ # ""

\* _fetch_alerts, lines 174-179: the announcement is older than 24 hours
AlertTooOld(table, clock) ==
    /\ table.GUNCELLEME_SAATI # None
    /\ LET update_time == _parse_update_time(table.GUNCELLEME_SAATI, clock)
           cutoff_time == Minutes(clock) - 24 * 60
       IN update_time # None /\ update_time.minutes < cutoff_time

RECURSIVE CollectAlerts(_, _, _)
CollectAlerts(tables, line_code, clock) ==
    IF tables = <<>> THEN <<>>
    ELSE LET table == Head(tables)
             rest == CollectAlerts(Tail(tables), line_code, clock)
         IN IF AlertMatches(table, line_code) /\ ~AlertTooOld(table, clock)
            THEN <<table.MESAJ>> \o rest
            ELSE rest

\* an exception of the fetch leaves _fetch_alerts
AlertFailureRaises_Uncaught == TRUE

\* _fetch_alerts, lines 191-199: every exception is caught and answered
\* with the empty list
AlertFailureRaises == FALSE

\* _fetch_alerts: the texts of the line's alerts of the last 24 hours
_fetch_alerts(outcome, line_code, clock) ==
    IF outcome.ok THEN CollectAlerts(outcome.feed, line_code, clock) ELSE <<>>

\* the times _check_operation_hours collects from both directions
ScheduleTimes(schedule) ==
    {_parse_time(schedule.G[i]) : i \in 1..Len(schedule.G)}
    \cup {_parse_time(schedule.D[i]) : i \in 1..Len(schedule.D)}

InOperation(in_operation, next_service_time) ==
    [in_operation |-> in_operation, next_service_time |-> next_service_time]

\* a line without times is out of service
_check_operation_hours_NoTimesOut(schedule, raised, clock) ==
    IF raised THEN InOperation(TRUE, None)
    ELSE LET all_times == ScheduleTimes(schedule) \ {None} IN
         IF all_times = {} THEN InOperation(FALSE, None)
         ELSE LET first == CHOOSE a \in all_times : \A t \in all_times : TimeLE(a, t)
                  last == CHOOSE b \in all_times : \A t \in all_times : TimeLE(t, b)
              IN IF TimeLE(first, clock) /\ TimeLE(clock, last)
                 THEN InOperation(TRUE, None)
                 ELSE InOperation(FALSE, strftime(first))

\* after the last departure the next service is the last departure
_check_operation_hours_AfterLastGivesLast(schedule, raised, clock) ==
    IF raised THEN InOperation(TRUE, None)
    ELSE LET all_times == ScheduleTimes(schedule) \ {None} IN
         IF all_times = {} THEN InOperation(TRUE, None)
         ELSE LET first == CHOOSE a \in all_times : \A t \in all_times : TimeLE(a, t)
                  last == CHOOSE b \in all_times : \A t \in all_times : TimeLE(t, b)
              IN IF TimeLE(first, clock) /\ TimeLE(clock, last)
                 THEN InOperation(TRUE, None)
                 ELSE IF TimeLT(clock, first)
                 THEN InOperation(FALSE, strftime(first))
                 ELSE InOperation(FALSE, strftime(last))

\* _check_operation_hours, lines 234-275, on what get_schedule returned
\* (or raised) and the time of day
_check_operation_hours(schedule, raised, clock) ==
    IF raised THEN InOperation(TRUE, None)
    ELSE LET all_times == ScheduleTimes(schedule) \ {None} IN
         IF all_times = {} THEN InOperation(TRUE, None)
         ELSE LET first_service == CHOOSE a \in all_times : \A t \in all_times : TimeLE(a, t)
                  last_service == CHOOSE b \in all_times : \A t \in all_times : TimeLE(t, b)
              IN IF TimeLE(first_service, clock) /\ TimeLE(clock, last_service)
                 THEN InOperation(TRUE, None)
                 ELSE InOperation(FALSE, strftime(first_service))

\* the message of an OUT_OF_SERVICE status, with the first departure when
\* it is known
OutOfServiceMessage(next_time) ==
    [text |-> "Hat su an hizmet vermemektedir.", first |-> next_time]

StatusResult(status, messages, next_service_time) ==
    [status |-> status, messages |-> messages,
     next_service_time |-> next_service_time]

\* get_line_status, lines 293-295: the membership test of the status cache
Status_Begin(p, l) ==
    /\ Free(p)
    /\ "status" \in cfg.ops
    /\ op' = [op EXCEPT ![p] = "status"]
    /\ arg' = [arg EXCEPT ![p] = l]
    /\ sloc' = [sloc EXCEPT ![p] = InitSloc]
    /\ loc' = [loc EXCEPT ![p] = InitLoc]
    /\ hist' = [hist EXCEPT ![p] = InitHist]
    /\ pc' = [pc EXCEPT ![p] = IF CacheContains(scache, l) THEN "s_read" ELSE "s_alerts"]
    /\ UNCHANGED <<today, now, mem, db, scache, fresh, cfg, rloc, lru>>

\* line 295: return _status_cache[line_code]; KeyError when the entry has
\* gone since the membership test
Status_CacheRead(p) ==
    /\ pc[p] = "s_read"
    /\ IF CacheContains(scache, arg[p])
       THEN /\ sloc' = [sloc EXCEPT ![p].result = scache[arg[p]].value,
                                    ![p].cached = TRUE]
            /\ pc' = [pc EXCEPT ![p] = "done"]
       ELSE /\ sloc' = sloc
            /\ pc' = [pc EXCEPT ![p] = "raised"]
    /\ lru' = [lru EXCEPT !.status = Touched(@, scache, arg[p])]
    /\ UNCHANGED <<today, now, mem, db, scache, op, arg, loc, hist, fresh, cfg, rloc>>

\* lines 300-312 and 232: the alerts provider answers; with alerts the
\* status is WARNING, cached and returned; without, _check_operation_hours
\* enters get_schedule
Status_FetchAlerts(p) ==
    /\ pc[p] = "s_alerts"
    /\ \E outcome \in AlertsSeen, clock \in ClocksSeen :
        LET alert_messages == _fetch_alerts(outcome, arg[p], clock)
            seen == [sloc[p] EXCEPT !.alerts = alert_messages,
                                    !.alert_clock = clock,
                                    !.feed = outcome.feed,
                                    !.alert_error = outcome.error]
        IN IF ~outcome.ok /\ AlertFailureRaises
           THEN /\ sloc' = [sloc EXCEPT ![p] = seen]
                /\ pc' = [pc EXCEPT ![p] = "raised"]
                /\ UNCHANGED <<scache, loc, hist, lru>>
           ELSE IF alert_messages # <<>>
           THEN LET result == StatusResult(LineStatus_WARNING, alert_messages, None) IN
                /\ sloc' = [sloc EXCEPT ![p] = [seen EXCEPT !.result = result]]
                /\ StatusCacheWrite(arg[p], result)
                /\ pc' = [pc EXCEPT ![p] = "done"]
                /\ UNCHANGED <<loc, hist>>
           ELSE /\ sloc' = [sloc EXCEPT ![p] = seen]
                /\ EnterGetSchedule(p, arg[p])
                /\ UNCHANGED <<scache, lru>>
    /\ UNCHANGED <<today, now, mem, db, op, arg, fresh, cfg, rloc>>

\* lines 234-275 and 314-333: get_schedule has returned or raised; the
\* status is OUT_OF_SERVICE or ACTIVE, cached and returned
Status_CheckHours(p) ==
    /\ pc[p] = "s_hours"
    /\ \E clock \in ClocksSeen :
        LET operation_info ==
                _check_operation_hours(loc[p].ret, loc[p].exc # NoneStr, clock)
            next_time == operation_info.next_service_time
            result ==
                IF ~operation_info.in_operation
                THEN StatusResult(LineStatus_OUT_OF_SERVICE,
                                  <<OutOfServiceMessage(next_time)>>, next_time)
                ELSE StatusResult(LineStatus_ACTIVE, <<>>, None)
        IN /\ sloc' = [sloc EXCEPT ![p].tod = clock,
                                   ![p].operation_info = operation_info,
                                   ![p].result = result]
           /\ StatusCacheWrite(arg[p], result)
    /\ pc' = [pc EXCEPT ![p] = "done"]
    /\ UNCHANGED <<today, now, mem, db, op, arg, loc, hist, fresh, cfg, rloc>>

-----------------------------------------------------------------------------
(* The service window of the forecast handler.                             *)

\* Python's None, for an hour
NoHour == -1
HoursOfDay == 0..23

\* what _get_service_hours returns: first_hour, last_hour, wraps_midnight,
\* has_service
ServiceWindow(first_hour, last_hour, wraps_midnight, has_service) ==
    [first_hour |-> first_hour, last_hour |-> last_hour,
     wraps_midnight |-> wraps_midnight, has_service |-> has_service]

\* _get_service_hours, lines 81-87: Marmaray, 06:00 - 00:00
MarmarayWindow == ServiceWindow(6, 0, TRUE, TRUE)

\* the windows handed to _is_hour_in_service: none, no service (with and
\* without hours), and every pair of hours, wrapping and not
Windows ==
    {None, ServiceWindow(NoHour, NoHour, FALSE, FALSE)}
    \cup {ServiceWindow(f, l, w, h) :
            f \in HoursOfDay, l \in HoursOfDay, w \in BOOLEAN, h \in BOOLEAN}

\* a window that wraps is read as one that does not
_is_hour_in_service_NoWrap(hour, service_hours) ==
    IF service_hours = None THEN TRUE
    ELSE IF ~service_hours.has_service THEN FALSE
    ELSE service_hours.first_hour <= hour /\ hour <= service_hours.last_hour

\* _is_hour_in_service, lines 176-206
_is_hour_in_service(hour, service_hours) ==
    IF service_hours = None THEN TRUE
    ELSE IF ~service_hours.has_service THEN FALSE
    ELSE LET first_hour == service_hours.first_hour
             last_hour == service_hours.last_hour
             wraps_midnight == service_hours.wraps_midnight
         IN IF first_hour = NoHour \/ last_hour = NoHour THEN FALSE
            ELSE IF ~wraps_midnight
            THEN first_hour <= hour /\ hour <= last_hour
            ELSE hour >= first_hour \/ hour <= last_hour

\* get_daily_forecast, lines 399-404: the next hourly forecast row is marked
\* in or out of service
Forecast_MarkHour(p) ==
    /\ "window" \in cfg.ops
    /\ Len(rloc[p].marks) < 24
    /\ LET hour == Len(rloc[p].marks) IN
       rloc' = [rloc EXCEPT ![p].marks =
                   Append(@, _is_hour_in_service(hour, rloc[p].service_hours))]
    /\ UNCHANGED <<today, now, mem, db, scache, pc, op, arg, loc, sloc, hist,
                   fresh, cfg, lru>>

-----------------------------------------------------------------------------
(* The service hours of a line (_get_service_hours).                       *)

\* the lines whose service hours are asked for; the first two begin with
\* one of the letters M, F, T of the rail lines
MARMARAY == "MARMARAY"
HoursLines == {MARMARAY, "M2", "19"}
RailPrefixed(line_code) == line_code \in {MARMARAY, "M2"}

\* an empty string where a time is expected
EmptyStr == [hh |-> -1, mm |-> -1]

\* what metro_service.get_line answers with: nothing, or a line of the
\* topology with its first_time and last_time, present and parseable or not
MetroLine(first_time, last_time) == [first_time |-> first_time, last_time |-> last_time]
MetroLines ==
    {None,
     MetroLine(TimeStr(6, 0), TimeStr(0, 30)),
     MetroLine(TimeStr(6, 0), TimeStr(23, 50)),
     MetroLine(TimeStr(6, 15), TimeStr(6, 5)),
     MetroLine(TimeStr(6, 0), TimeStr(6, 0)),
     MetroLine(EmptyStr, TimeStr(23, 50)),
     MetroLine(TimeStr(6, 0), TimeStr(25, 0))}

\* lines 137-152: no service, for the direction or for the day
NoServiceWindow == ServiceWindow(NoHour, NoHour, FALSE, FALSE)

\* lines 94-105: the window of the topology, when both times parse
HasTopologyTimes(metro_line) ==
    /\ metro_line # None
    /\ _parse_time(metro_line.first_time) # None
    /\ _parse_time(metro_line.last_time) # None

\* a window of the topology never wraps
TopologyWindow_NoWrap(metro_line) ==
    ServiceWindow(_parse_time(metro_line.first_time).hour,
                  _parse_time(metro_line.last_time).hour, FALSE, TRUE)

TopologyWindow(metro_line) ==
    LET first_t == _parse_time(metro_line.first_time)
        last_t == _parse_time(metro_line.last_time)
    IN ServiceWindow(first_t.hour, last_t.hour, TimeLT(last_t, first_t), TRUE)

\* the direction query parameter: 'G', 'D' or absent
Directions == {"G", "D", NoneStr}

\* lines 111-119: the parsed times of the directions to check
DirectionsToCheck(direction) == IF direction # NoneStr THEN {direction} ELSE {"G", "D"}

TimesOf(schedule, dir_code) == IF dir_code = "G" THEN schedule.G ELSE schedule.D

AllTimes(schedule, direction) ==
    UNION {{_parse_time(TimesOf(schedule, d)[i]) : i \in 1..Len(TimesOf(schedule, d))} :
              d \in DirectionsToCheck(direction)} \ {None}

\* a failed fetch leaves a line without service
EmptyWindow_FailedIsNoService(schedule, direction) == NoServiceWindow

\* a failed fetch gives a window that has service and no hours
EmptyWindow_FailedIsUnbounded(schedule, direction) ==
    IF schedule.data_status = "FETCH_FAILED"
    THEN ServiceWindow(NoHour, NoHour, FALSE, TRUE)
    ELSE NoServiceWindow

\* the requested direction is judged by has_service_today alone
EmptyWindow_IgnoresOpposite(schedule, direction) ==
    IF schedule.data_status = "FETCH_FAILED" THEN None
    ELSE IF direction \in {"G", "D"} /\ schedule.has_service_today THEN NoServiceWindow
    ELSE IF schedule.data_status = "NO_SERVICE_DAY"
            \/ (schedule.data_status = "NO_DATA" /\ ~schedule.has_service_today)
    THEN NoServiceWindow
    ELSE None

\* a day without data is never a day without service
EmptyWindow_NoDataInconclusive(schedule, direction) ==
    IF schedule.data_status = "FETCH_FAILED" THEN None
    ELSE IF direction \in {"G", "D"}
            /\ (TimesOf(schedule, IF direction = "G" THEN "D" ELSE "G") # <<>>
                \/ schedule.has_service_today)
    THEN NoServiceWindow
    ELSE IF schedule.data_status = "NO_SERVICE_DAY" THEN NoServiceWindow
    ELSE None

\* lines 122-156: no parsed time in the directions to check
EmptyWindow(schedule, direction) ==
    LET data_status == schedule.data_status
        has_service_today == schedule.has_service_today
        opposite == IF direction = "G" THEN "D" ELSE "G"
        opposite_has_times == TimesOf(schedule, opposite) # <<>>
    IN IF data_status = "FETCH_FAILED" THEN None
       ELSE IF direction \in {"G", "D"} /\ (opposite_has_times \/ has_service_today)
       THEN NoServiceWindow
       ELSE IF data_status = "NO_SERVICE_DAY"
               \/ (data_status = "NO_DATA" /\ ~has_service_today)
       THEN NoServiceWindow
       ELSE None

\* the last hour is the hour of the first time
TimesWindow_FirstOnly(all_times) ==
    LET lo == CHOOSE t \in all_times : \A u \in all_times : t = u \/ TimeLT(t, u)
    IN ServiceWindow(lo.hour, lo.hour, FALSE, TRUE)

\* lines 158-169: the hours of the earliest and of the latest time
TimesWindow(all_times) ==
    LET lo == CHOOSE t \in all_times : \A u \in all_times : t = u \/ TimeLT(t, u)
        hi == CHOOSE t \in all_times : \A u \in all_times : t = u \/ TimeLT(u, t)
    IN ServiceWindow(lo.hour, hi.hour, FALSE, TRUE)

\* lines 107-170: the window of a resolved schedule
ScheduleWindow(schedule, direction) ==
    IF AllTimes(schedule, direction) = {}
    THEN EmptyWindow(schedule, direction)
    ELSE TimesWindow(AllTimes(schedule, direction))

\* get_daily_forecast, lines 399-404: the 24 hours against the window
MarkedHours(service_hours) ==
    [i \in 1..24 |-> _is_hour_in_service(i - 1, service_hours)]

\* lines 83-107: Marmaray and the rail lines of the topology have their
\* window at once; every other request resolves the schedule of the line
Hours_Begin(p) ==
    /\ Free(p)
    /\ "hours" \in cfg.ops
    /\ \E line_code \in HoursLines, direction \in Directions, metro_line \in MetroLines :
        LET asked == [InitRloc EXCEPT !.direction = direction,
                                      !.metro_line = metro_line]
            done(w) == [asked EXCEPT !.service_hours = w, !.marks = MarkedHours(w)]
        IN /\ RailPrefixed(line_code) \/ metro_line = None
           /\ line_code = MARMARAY => metro_line = None
           /\ op' = [op EXCEPT ![p] = "hours"]
           /\ arg' = [arg EXCEPT ![p] = line_code]
           /\ IF line_code = MARMARAY
              THEN /\ rloc' = [rloc EXCEPT ![p] = done(MarmarayWindow)]
                   /\ pc' = [pc EXCEPT ![p] = "done"]
                   /\ loc' = [loc EXCEPT ![p] = InitLoc]
                   /\ hist' = [hist EXCEPT ![p] = InitHist]
              ELSE IF RailPrefixed(line_code) /\ HasTopologyTimes(metro_line)
              THEN /\ rloc' = [rloc EXCEPT ![p] = done(TopologyWindow(metro_line))]
                   /\ pc' = [pc EXCEPT ![p] = "done"]
                   /\ loc' = [loc EXCEPT ![p] = InitLoc]
                   /\ hist' = [hist EXCEPT ![p] = InitHist]
              ELSE /\ rloc' = [rloc EXCEPT ![p] = [asked EXCEPT !.resolved = TRUE]]
                   /\ EnterGetSchedule(p, line_code)
    /\ UNCHANGED <<today, now, mem, db, scache, sloc, fresh, cfg, lru>>

\* lines 107-173: get_schedule has returned or raised; the except clause
\* answers an exception with no window
Hours_Window(p) ==
    /\ pc[p] = "h_window"
    /\ LET w == IF loc[p].exc # NoneStr THEN None
                ELSE ScheduleWindow(loc[p].ret, rloc[p].direction)
       IN rloc' = [rloc EXCEPT ![p].service_hours = w, ![p].marks = MarkedHours(w)]
    /\ pc' = [pc EXCEPT ![p] = "done"]
    /\ UNCHANGED <<today, now, mem, db, scache, op, arg, loc, sloc, hist, fresh,
                   cfg, lru>>

-----------------------------------------------------------------------------
(* The pooled line (METROBUS).                                             *)

METROBUS_CODE == "METROBUS"
AllPoolMembers == <<"34", "34A", "34AS", "34BZ", "34C", "34G", "34Z">>
\* the variants pooled into one virtual line
METROBUS_POOL == SubSeq(AllPoolMembers, 1, PoolSize)

Range(seq) == {seq[i] : i \in 1..Len(seq)}

\* the combined times are left as the loop extended them
PoolTimes_AsExtended(times) == times

\* get_line_schedule, lines 71-73: sorted(set(times))
PoolTimes(times) == SortedStrs(Range(times))

\* the pooled schedule is always OK
PoolDataStatus_AlwaysOK(has_service_today) == "OK"

\* get_line_schedule, line 75
PoolDataStatus(has_service_today) ==
    IF has_service_today THEN "OK" ELSE "NO_SERVICE_DAY"

\* get_line_schedule, lines 71-76: ScheduleResponse(**combined)
PoolResponse(G, D) ==
    LET g == PoolTimes(G)
        d == PoolTimes(D)
        has_service_today == g # <<>> \/ d # <<>>
    IN [G |-> g, D |-> d, has_service_today |-> has_service_today,
        data_status |-> PoolDataStatus(has_service_today)]

\* get_line_schedule, lines 58-68: the combined schedule starts empty and
\* get_schedule is entered for the first member
Pool_Begin(p) ==
    /\ Free(p)
    /\ "pool" \in cfg.ops
    /\ op' = [op EXCEPT ![p] = "pool"]
    /\ arg' = [arg EXCEPT ![p] = METROBUS_POOL[1]]
    /\ rloc' = [rloc EXCEPT ![p] = [InitRloc EXCEPT !.idx = 1]]
    /\ EnterGetSchedule(p, METROBUS_POOL[1])
    /\ UNCHANGED <<today, now, mem, db, scache, sloc, fresh, cfg, lru>>

\* lines 67-77: the member's times are appended; then get_schedule is
\* entered for the next member, or the combined schedule is de-duplicated,
\* sorted, flagged and returned
Pool_Extend(p) ==
    /\ pc[p] = "p_extend"
    /\ LET payload == loc[p].ret
           G == rloc[p].G \o payload.G
           D == rloc[p].D \o payload.D
           seen == Append(rloc[p].seen, [line |-> arg[p], payload |-> payload])
           idx == rloc[p].idx
       IN IF idx < Len(METROBUS_POOL)
          THEN /\ rloc' = [rloc EXCEPT ![p].G = G, ![p].D = D, ![p].seen = seen,
                                       ![p].idx = idx + 1]
               /\ arg' = [arg EXCEPT ![p] = METROBUS_POOL[idx + 1]]
               /\ EnterGetSchedule(p, METROBUS_POOL[idx + 1])
          ELSE /\ rloc' = [rloc EXCEPT ![p].G = G, ![p].D = D, ![p].seen = seen,
                                       ![p].response = PoolResponse(G, D)]
               /\ pc' = [pc EXCEPT ![p] = "done"]
               /\ UNCHANGED <<arg, loc, hist>>
    /\ UNCHANGED <<today, now, mem, db, scache, op, sloc, fresh, cfg, lru>>

-----------------------------------------------------------------------------
(* The forecast of the pooled line.                                        *)


\* the dates a forecast is asked for
ForecastDates == {today, today + 7, today + 8}

Max(a, b) == IF a >= b THEN a ELSE b

RECURSIVE SumSeq(_)
SumSeq(seq) == IF seq = <<>> THEN 0 ELSE Head(seq) + SumSeq(Tail(seq))

\* the departures of a list per hour of day; a time that does not parse is
\* skipped
TripsPerHour(times) ==
    [h \in HoursOfDay |->
        Cardinality({i \in 1..Len(times) :
                        /\ _parse_time(times[i]) # None
                        /\ _parse_time(times[i]).hour = h})]

\* _trips_per_hour_from_payload_direction, lines 61-68
_trips_per_hour_from_payload_direction(payload, direction) ==
    TripsPerHour(IF direction = "G" THEN payload.G ELSE payload.D)

\* bus_schedule_cache_service.trips_per_hour_from_payload: G and D combined
trips_per_hour_from_payload(payload) ==
    [h \in HoursOfDay |-> TripsPerHour(payload.G)[h] + TripsPerHour(payload.D)[h]]

\* lines 317-320: the member has a payload and it is not the sentinel
MemberAvailable(payload) ==
    payload # None /\ payload.data_status # "FETCH_FAILED"

\* lines 322-325
SubTrips(payload, direction) ==
    IF direction \in {"G", "D"}
    THEN _trips_per_hour_from_payload_direction(payload, direction)
    ELSE trips_per_hour_from_payload(payload)

\* lines 308-326: the trips of the members that have a schedule, hour by hour
TripsByHour(read, direction) ==
    [h \in HoursOfDay |->
        SumSeq([i \in 1..Len(read) |->
                   IF MemberAvailable(read[i])
                   THEN SubTrips(read[i], direction)[h] ELSE 0])]

\* without a schedule every hour is out of service
FallbackHour_OutOfService ==
    [trips_per_hour |-> 0, in_service |-> FALSE, max_capacity |-> 0]

\* lines 362-375: without a schedule, the floor
FallbackHour ==
    [trips_per_hour |-> METROBUS_MIN_TRIPS_FALLBACK, in_service |-> TRUE,
     max_capacity |-> METROBUS_MIN_TRIPS_FALLBACK * METROBUS_CAPACITY]

\* the members are not added up: the last one counts
ScheduledHour_NoSum(trips, last) ==
    [trips_per_hour |-> last, in_service |-> last > 0,
     max_capacity |-> Max(1, last * METROBUS_CAPACITY)]

\* lines 332-360: with a schedule, the hour's trips, whether it is in
\* service, and the capacity
ScheduledHour(trips, last) ==
    [trips_per_hour |-> trips, in_service |-> trips > 0,
     max_capacity |-> Max(1, trips * METROBUS_CAPACITY)]

\* get_daily_forecast for the pooled line, lines 280-377: 400 for a date too
\* far ahead, 404 without forecast rows, else the 24 hours (the predicted
\* values, which come from another table, are left out)
Forecast_Pooled(p) ==
    /\ Free(p)
    /\ "forecast" \in cfg.ops
    /\ \E direction \in Directions, target_date \in ForecastDates,
          metrobus_rows \in BOOLEAN :
        LET read == [i \in 1..Len(METROBUS_POOL) |->
                        get_cached_schedule(db, METROBUS_POOL[i], target_date,
                                            ForecastMaxStaleDays).payload]
            schedule_available == \E i \in 1..Len(read) : MemberAvailable(read[i])
            trips_by_hour == TripsByHour(read, direction)
            last == IF MemberAvailable(read[Len(read)])
                    THEN SubTrips(read[Len(read)], direction)
                    ELSE [h \in HoursOfDay |-> 0]
            asked == [direction |-> direction, target_date |-> target_date,
                      read |-> <<>>, schedule_available |-> FALSE,
                      hours |-> <<>>]
        IN IF target_date > today + ForecastMaxDaysAhead \/ ~metrobus_rows
           THEN /\ rloc' = [rloc EXCEPT ![p] = [InitRloc EXCEPT !.forecast = asked]]
                /\ pc' = [pc EXCEPT ![p] = "raised"]
           ELSE /\ rloc' = [rloc EXCEPT ![p] = [InitRloc EXCEPT !.forecast =
                      [asked EXCEPT
                         !.read = read,
                         !.schedule_available = schedule_available,
                         !.hours = [h \in HoursOfDay |->
                                      IF schedule_available
                                      THEN ScheduledHour(trips_by_hour[h], last[h])
                                      ELSE FallbackHour]]]]
                /\ pc' = [pc EXCEPT ![p] = "done"]
    /\ op' = [op EXCEPT ![p] = "forecast"]
    /\ arg' = [arg EXCEPT ![p] = METROBUS_CODE]
    /\ loc' = [loc EXCEPT ![p] = InitLoc]
    /\ hist' = [hist EXCEPT ![p] = InitHist]
    /\ UNCHANGED <<today, now, mem, db, scache, sloc, fresh, cfg, lru>>

-----------------------------------------------------------------------------
(* The schedule resolver under concurrent requests.                        *)

InitCore(c) ==
    /\ cfg = c
    /\ today = c.first_day
    /\ now = 0
    /\ mem = EmptyCache(c.lines \X (c.first_day..(c.first_day + c.day_span)))
    /\ scache = EmptyCache(c.lines)
    /\ pc = [p \in c.workers |-> "idle"]
    /\ op = [p \in c.workers |-> "none"]
    /\ arg = [p \in c.workers |-> AllLines]
    /\ loc = [p \in c.workers |-> InitLoc]
    /\ sloc = [p \in c.workers |-> InitSloc]
    /\ hist = [p \in c.workers |-> InitHist]
    /\ fresh = [l \in c.lines |-> NoEntry]
    /\ lru = [schedule |-> <<>>, status |-> <<>>]

InitBase(c) ==
    /\ InitCore(c)
    /\ db = {}

InitState(c) ==
    /\ InitBase(c)
    /\ rloc = [p \in c.workers |-> InitRloc]

\* two workers resolve the schedule of one line during one day
Init ==
    \E d \in StartDays :
        InitState([lines |-> {"19"}, workers |-> {"w1", "w2"},
                   ops |-> {"schedule"}, first_day |-> d, day_span |-> 0, inputs |-> "all", cache |-> "full"])

Next ==
    \/ \E p \in Workers, l \in Lines : GetSchedule_Begin(p, l)
    \/ \E p \in Workers : GetSchedule_MemRead(p)
    \/ \E p \in Workers : GetSchedule_DbLookup(p)
    \/ \E p \in Workers : GetSchedule_DbHit(p)
    \/ \E p \in Workers : GetSchedule_FetchReturn(p)
    \/ \E p \in Workers : GetSchedule_StoreSuccess(p)
    \/ \E p \in Workers : GetSchedule_CacheSuccess(p)
    \/ \E p \in Workers : GetSchedule_StoreFailed(p)
    \/ \E p \in Workers : GetSchedule_CacheFailed(p)
    \/ Tick

Spec == Init /\ [][Next]_vars

-----------------------------------------------------------------------------
(* The schedule resolver over several days: one worker, and midnights.     *)

InitDays ==
    \E d \in StartDays :
        InitState([lines |-> {"19"}, workers |-> {"w1"},
                   ops |-> {"schedule"}, first_day |-> d, day_span |-> DaySpan, inputs |-> "all", cache |-> "full"])

NextDays == Next \/ NextDay

SpecDays == InitDays /\ [][NextDays]_vars

-----------------------------------------------------------------------------
(* The status resolver: a worker asks for the status or the schedule of    *)
(* one line, call after call, while the caches fill and expire.            *)

InitStatus ==
    \E d \in {4, 5, 6} :
        InitState([lines |-> {"15F"}, workers |-> {"w1"},
                   ops |-> {"status", "schedule"}, first_day |-> d, day_span |-> 0, inputs |-> "all", cache |-> "full"])

NextStatus ==
    \/ \E p \in Workers, l \in Lines : Status_Begin(p, l)
    \/ \E p \in Workers, l \in Lines : GetSchedule_Begin(p, l)
    \/ \E p \in Workers : Status_CacheRead(p)
    \/ \E p \in Workers : Status_FetchAlerts(p)
    \/ \E p \in Workers : Status_CheckHours(p)
    \/ \E p \in Workers : GetSchedule_MemRead(p)
    \/ \E p \in Workers : GetSchedule_DbLookup(p)
    \/ \E p \in Workers : GetSchedule_DbHit(p)
    \/ \E p \in Workers : GetSchedule_FetchReturn(p)
    \/ \E p \in Workers : GetSchedule_StoreSuccess(p)
    \/ \E p \in Workers : GetSchedule_CacheSuccess(p)
    \/ \E p \in Workers : GetSchedule_StoreFailed(p)
    \/ \E p \in Workers : GetSchedule_CacheFailed(p)
    \/ Tick

SpecStatus == InitStatus /\ [][NextStatus]_vars

-----------------------------------------------------------------------------
(* The hours of a day against a service window: the handler marks the 24   *)
(* hourly rows of a forecast, for every window.                            *)

InitWindow ==
    \E w \in Windows :
        /\ InitBase([lines |-> {"19"}, workers |-> {"w1"}, ops |-> {"window"},
                     first_day |-> 2, day_span |-> 0, inputs |-> "all", cache |-> "full"])
        /\ rloc = [p \in {"w1"} |-> [InitRloc EXCEPT !.service_hours = w]]

NextWindow == \E p \in Workers : Forecast_MarkHour(p)

SpecWindow == InitWindow /\ [][NextWindow]_vars

-----------------------------------------------------------------------------
(* The pooled line: a worker asks for the schedule of METROBUS, call after *)
(* call, on a working day, a Saturday or a Sunday.                         *)

InitPool ==
    \E d \in {4, 5, 6} :
        InitState([lines |-> Range(METROBUS_POOL), workers |-> {"w1"},
                   ops |-> {"pool"}, first_day |-> d, day_span |-> 0, inputs |-> "all", cache |-> "full"])

NextPool ==
    \/ \E p \in Workers : Pool_Begin(p)
    \/ \E p \in Workers : Pool_Extend(p)
    \/ \E p \in Workers : GetSchedule_MemRead(p)
    \/ \E p \in Workers : GetSchedule_DbLookup(p)
    \/ \E p \in Workers : GetSchedule_DbHit(p)
    \/ \E p \in Workers : GetSchedule_FetchReturn(p)
    \/ \E p \in Workers : GetSchedule_StoreSuccess(p)
    \/ \E p \in Workers : GetSchedule_CacheSuccess(p)
    \/ \E p \in Workers : GetSchedule_StoreFailed(p)
    \/ \E p \in Workers : GetSchedule_CacheFailed(p)
    \/ Tick

SpecPool == InitPool /\ [][NextPool]_vars

-----------------------------------------------------------------------------
(* The forecast of the pooled line, over the rows get_schedule can have    *)
(* left in the table for each member: none, a schedule of the day, a       *)
(* schedule of a week before, the sentinel.                                *)

\* the rows of one member as get_schedule stores them (lines 268-275 and
\* 297-305)
MemberRows(line, d) ==
    {{}}
    \cup {{Row(line, d, day_type_for_date(d),
               build_filtered_payload(raw, d), "SUCCESS", NoneStr)} :
            raw \in RawData}
    \cup {{Row(line, d - 7, day_type_for_date(d - 7),
               build_filtered_payload(RawB, d - 7), "SUCCESS", NoneStr)}}
    \cup {{Row(line, d, day_type_for_date(d),
               failed_payload(day_type_for_date(d), d), "FAILED",
               "UpstreamTimeout")}}

\* the tables with one choice of rows per member
RECURSIVE PoolTables(_, _)
PoolTables(members, d) ==
    IF members = <<>> THEN {{}}
    ELSE {mine \cup rest : mine \in MemberRows(Head(members), d),
                           rest \in PoolTables(Tail(members), d)}

\* a Friday, a Saturday or a Sunday
InitForecast ==
    \E d \in {11, 12, 13} :
        LET c == [lines |-> Range(METROBUS_POOL), workers |-> {"w1"},
                  ops |-> {"forecast"}, first_day |-> d, day_span |-> 0, inputs |-> "all", cache |-> "full"]
        IN /\ InitCore(c)
           /\ db \in PoolTables(METROBUS_POOL, d)
           /\ rloc = [p \in c.workers |-> InitRloc]

NextForecast == \E p \in Workers : Forecast_Pooled(p)

SpecForecast == InitForecast /\ [][NextForecast]_vars

-----------------------------------------------------------------------------
(* Clearing the caches: a worker asks for the status of two lines, which   *)
(* fills both memory caches, and clears them, for one line or for all.     *)
(* The clock stands still: no entry expires.                               *)

ClearTargets == AllLinesSet \cup {AllLines}

InitClear ==
    InitState([lines |-> AllLinesSet, workers |-> {"w1"},
               ops |-> {"status", "clear"},
               first_day |-> 2, day_span |-> 0, inputs |-> "few", cache |-> "full"])

NextClear ==
    \/ \E p \in Workers, l \in Lines : Status_Begin(p, l)
    \/ \E p \in Workers, t \in ClearTargets : ClearCache_Memory(p, t)
    \/ \E p \in Workers : ClearCache_Db(p)
    \/ \E p \in Workers, t \in ClearTargets : Status_ClearCache(p, t)
    \/ \E p \in Workers : Status_CacheRead(p)
    \/ \E p \in Workers : Status_FetchAlerts(p)
    \/ \E p \in Workers : Status_CheckHours(p)
    \/ \E p \in Workers : GetSchedule_MemRead(p)
    \/ \E p \in Workers : GetSchedule_DbLookup(p)
    \/ \E p \in Workers : GetSchedule_DbHit(p)
    \/ \E p \in Workers : GetSchedule_FetchReturn(p)
    \/ \E p \in Workers : GetSchedule_StoreSuccess(p)
    \/ \E p \in Workers : GetSchedule_CacheSuccess(p)
    \/ \E p \in Workers : GetSchedule_StoreFailed(p)
    \/ \E p \in Workers : GetSchedule_CacheFailed(p)

SpecClear == InitClear /\ [][NextClear]_vars

-----------------------------------------------------------------------------
(* Clearing the schedule caches over two days: a worker asks for the       *)
(* schedules of two lines, clears them, and midnight passes.               *)
(* The clock stands still: no entry expires.                               *)

InitClearDays ==
    InitState([lines |-> AllLinesSet, workers |-> {"w1"},
               ops |-> {"schedule", "clear"},
               first_day |-> 2, day_span |-> 1, inputs |-> "few", cache |-> "full"])

NextClearDays ==
    \/ \E p \in Workers, l \in Lines : GetSchedule_Begin(p, l)
    \/ \E p \in Workers, t \in Lines : ClearCache_Memory(p, t)
    \/ \E p \in Workers : ClearCache_Db(p)
    \/ \E p \in Workers : GetSchedule_MemRead(p)
    \/ \E p \in Workers : GetSchedule_DbLookup(p)
    \/ \E p \in Workers : GetSchedule_DbHit(p)
    \/ \E p \in Workers : GetSchedule_FetchReturn(p)
    \/ \E p \in Workers : GetSchedule_StoreSuccess(p)
    \/ \E p \in Workers : GetSchedule_CacheSuccess(p)
    \/ \E p \in Workers : GetSchedule_StoreFailed(p)
    \/ \E p \in Workers : GetSchedule_CacheFailed(p)
    \/ NextDay

SpecClearDays == InitClearDays /\ [][NextClearDays]_vars

-----------------------------------------------------------------------------
(* A full cache: a worker asks for the schedules of one line more than the *)
(* memory cache holds.                                                     *)
(* The clock stands still: no entry expires.                               *)

CachedLines == Range(SubSeq(AllPoolMembers, 1, MaxEntries + 1))

InitFull ==
    InitState([lines |-> CachedLines, workers |-> {"w1"},
               ops |-> {"schedule"},
               first_day |-> 2, day_span |-> 0, inputs |-> "few", cache |-> "small"])

NextFull ==
    \/ \E p \in Workers, l \in Lines : GetSchedule_Begin(p, l)
    \/ \E p \in Workers : GetSchedule_MemRead(p)
    \/ \E p \in Workers : GetSchedule_DbLookup(p)
    \/ \E p \in Workers : GetSchedule_DbHit(p)
    \/ \E p \in Workers : GetSchedule_FetchReturn(p)
    \/ \E p \in Workers : GetSchedule_StoreSuccess(p)
    \/ \E p \in Workers : GetSchedule_CacheSuccess(p)
    \/ \E p \in Workers : GetSchedule_StoreFailed(p)
    \/ \E p \in Workers : GetSchedule_CacheFailed(p)

SpecFull == InitFull /\ [][NextFull]_vars

-----------------------------------------------------------------------------
(* Service hours: a worker asks for the service hours of Marmaray, of a    *)
(* rail line and of a bus line whose schedule of the day may be persisted. *)

\* the direction lists of a persisted payload: none, one time, two times
\* out of order, a time that does not parse
SeedTimes ==
    { <<>>, <<TimeStr(6, 0)>>, <<TimeStr(23, 30), TimeStr(5, 30)>>,
      <<TimeStr(25, 0)>> }

\* a persisted payload: any lists with the status OK, empty lists with a
\* status of no service
SeedPayload(g, d, h, st) ==
    [G |-> g, D |-> d, has_service_today |-> h, data_status |-> st,
     day_type |-> "I", valid_for |-> 2]

SeedPayloads ==
    {SeedPayload(g, d, h, "OK") : g \in SeedTimes, d \in SeedTimes, h \in BOOLEAN}
    \cup {SeedPayload(<<>>, <<>>, h, st) :
            h \in BOOLEAN, st \in {"NO_SERVICE_DAY", "NO_DATA"}}

InitHours ==
    /\ InitCore([lines |-> {"19", "M2"}, workers |-> {"w1"}, ops |-> {"hours"},
                 first_day |-> 2, day_span |-> 0, inputs |-> "few", cache |-> "full"])
    /\ db \in {{}} \cup {{Row("19", 2, "I", x, "SUCCESS", NoneStr)} : x \in SeedPayloads}
    /\ rloc = [p \in {"w1"} |-> InitRloc]

NextHours ==
    \/ \E p \in Workers : Hours_Begin(p)
    \/ \E p \in Workers : Hours_Window(p)
    \/ \E p \in Workers : GetSchedule_MemRead(p)
    \/ \E p \in Workers : GetSchedule_DbLookup(p)
    \/ \E p \in Workers : GetSchedule_DbHit(p)
    \/ \E p \in Workers : GetSchedule_FetchReturn(p)
    \/ \E p \in Workers : GetSchedule_StoreSuccess(p)
    \/ \E p \in Workers : GetSchedule_CacheSuccess(p)
    \/ \E p \in Workers : GetSchedule_StoreFailed(p)
    \/ \E p \in Workers : GetSchedule_CacheFailed(p)

SpecHours == InitHours /\ [][NextHours]_vars

-----------------------------------------------------------------------------
(* The 24-hour cutoff of the alerts: a worker asks for the status of a     *)
(* line at any hour of the day while the provider lists one announcement   *)
(* for the line, updated at any hour. The clock of the caches stands       *)
(* still.                                                                  *)

InitCutoff ==
    InitState([lines |-> {"15F"}, workers |-> {"w1"}, ops |-> {"status"},
               first_day |-> 4, day_span |-> 0, inputs |-> "hours", cache |-> "full"])

NextCutoff ==
    \/ \E p \in Workers, l \in Lines : Status_Begin(p, l)
    \/ \E p \in Workers : Status_CacheRead(p)
    \/ \E p \in Workers : Status_FetchAlerts(p)

SpecCutoff == InitCutoff /\ [][NextCutoff]_vars

-----------------------------------------------------------------------------
(* Properties of the schedule resolver.                                    *)

\* the failure sentinel: empty G and D, data_status FETCH_FAILED

\* C1: a get_schedule call whose upstream fetch failed never raises and,
\* once it has returned, has returned the sentinel (empty G and D,
\* FETCH_FAILED), whether or not the sentinel could be persisted.
C1_FailureYieldsSentinel ==
    \A p \in Workers :
        hist[p].up_failed =>
            /\ pc[p] # "raised"
            /\ pc[p] = "done" => IsSentinel(loc[p].ret)

\* C1 witness: a call returned the sentinel after both the fetch and the
\* upsert of the sentinel failed
C1_Witness ==
    \E p \in Workers :
        /\ pc[p] = "done" /\ hist[p].up_failed /\ ~hist[p].stored
        /\ IsSentinel(loc[p].ret)

Completes(p) == ~Free(p) /\ Free(p)'

\* C2, as claimed: a call made while a payload fetched from upstream today is
\* fresh in memory, and completing while it still is (no clear, no expiry),
\* returns that payload and touches neither upstream nor the persistent store.
C2_FreshServedFromMemory ==
    [][\A p \in Workers :
          (/\ Completes(p)
           /\ hist[p].saw_fresh # None
           /\ fresh[arg[p]] # NoEntry
           /\ fresh[arg[p]].value = hist[p].saw_fresh)
          => /\ pc'[p] = "done"
             /\ loc'[p].ret = hist[p].saw_fresh
             /\ ~hist'[p].upstream
             /\ ~hist'[p].used_db]_vars

\* the upstream fetches in flight for the cache key of worker p
InFlight(p) ==
    {q \in Workers : /\ pc[q] = "fetch_wait" /\ arg[q] = arg[p]
                     /\ loc[q].target_date = loc[p].target_date}

\* C3, as claimed: at no time is more than one upstream fetch in flight for
\* one cache key.
C3_SingleFlight ==
    \A p \in Workers : pc[p] = "fetch_wait" => Cardinality(InFlight(p)) <= 1

C4_Usable(p) ==
    /\ hist[p].yrow # None
    /\ hist[p].yrow.source_status = "SUCCESS"
    /\ Weekday(loc[p].target_date) \in 1..4

ExpectedDayType(wd) ==
    IF wd \in 0..4 THEN "I" ELSE IF wd = 5 THEN "C" ELSE "P"

\* C5: the day type follows the weekday of the resolution date; every row is
\* stored under the day type of its date, and a call is served only rows
\* and payloads of the day type of the date it resolves: never a weekday row
\* on a Saturday.
C5_DayTypeSelection ==
    /\ \A wd \in 0..6 : _get_day_type(wd) = ExpectedDayType(wd)
    /\ \A r \in db : r.day_type = ExpectedDayType(Weekday(r.valid_for))
    /\ \A p \in Workers :
        /\ pc[p] = "db_hit" =>
              loc[p].record.day_type = ExpectedDayType(Weekday(loc[p].target_date))
        /\ pc[p] = "done" =>
              loc[p].ret.day_type = ExpectedDayType(Weekday(loc[p].target_date))

\* C5 witness: a Saturday call has returned while a SUCCESS row of Friday,
\* well within the staleness tolerance, was there to be served
C5_Witness ==
    \E p \in Workers :
        /\ pc[p] = "done" /\ Weekday(loc[p].target_date) = 5
        /\ loc[p].ret.day_type = "C"
        /\ \E r \in db : /\ r.line_code = arg[p] /\ r.day_type = "I"
                         /\ r.source_status = "SUCCESS"
                         /\ r.valid_for = loc[p].target_date - 1

RowsOfKey(rows, line_code, valid_for, day_type) ==
    {r \in rows : SameKey(r, line_code, valid_for, day_type)}

\* C6: the table never holds two rows of one (line_code, valid_for,
\* day_type).
C6_OneRowPerKey ==
    \A r1 \in db, r2 \in db :
        SameKey(r1, r2.line_code, r2.valid_for, r2.day_type) => r1 = r2

\* C6 witness: two calls have each written the row of one key, a SUCCESS
\* row and a FAILED row, and the table holds one row of that key
C6_Witness ==
    \E p \in Workers, q \in Workers :
        /\ p # q /\ arg[p] = arg[q] /\ loc[p].target_date = loc[q].target_date
        /\ hist[p].stored /\ hist[q].stored
        /\ hist[p].up_failed /\ ~hist[q].up_failed
        /\ Cardinality(RowsOfKey(db, arg[p], loc[p].target_date,
                                 day_type_for_date(loc[p].target_date))) = 1

\* a row as one write leaves it: SUCCESS with a schedule and no message, or
\* FAILED with the sentinel and a message
WholeRow(r) ==
    \/ /\ r.source_status = "SUCCESS"
       /\ r.error_message = NoneStr
       /\ ~IsSentinel(r.payload)
    \/ /\ r.source_status = "FAILED"
       /\ r.error_message # NoneStr
       /\ IsSentinel(r.payload)

\* the row worker p writes in this step, when it writes one
Writes(p, r) ==
    /\ ~hist[p].stored /\ hist'[p].stored
    /\ r = IF pc[p] = "store_ok" THEN SuccessRow(p) ELSE FailedRow(p)

\* C7: every row in the table, and every record a reader holds, is whole
\* (payload, status and message of one write); and a write leaves its own
\* row, and nothing else, under its key.
C7_AtomicLastWriteWins ==
    /\ [](/\ \A r \in db : WholeRow(r)
          /\ \A p \in Workers : pc[p] = "db_hit" => WholeRow(loc[p].record))
    /\ [][\A p \in Workers : \A r \in {SuccessRow(p), FailedRow(p)} :
             Writes(p, r) =>
                RowsOfKey(db', r.line_code, r.valid_for, r.day_type) = {r}]_vars

\* C7 witness: a reader holds the SUCCESS record of a key whose row another
\* request has since replaced by its FAILED row
C7_Witness ==
    \E p \in Workers, q \in Workers :
        /\ pc[p] = "db_hit" /\ loc[p].record.source_status = "SUCCESS"
        /\ hist[q].stored /\ hist[q].up_failed
        /\ \E r \in db : /\ SameKey(r, loc[p].record.line_code,
                                    loc[p].record.valid_for, loc[p].record.day_type)
                         /\ r.source_status = "FAILED"

-----------------------------------------------------------------------------
(* Properties of the status resolver.                                      *)

\* the spellings under which the alerts provider names a line
Spellings(line) == IF line = "15F" THEN {"15F", "15f", " 15f "} ELSE {line}

\* the texts of the announcements of a feed that are for the line
RECURSIVE TextsFor(_, _)
TextsFor(feed, line) ==
    IF feed = <<>> THEN <<>>
    ELSE LET a == Head(feed)
         IN (IF a.HATKODU \in Spellings(line) /\ a.MESAJ # ""
             THEN <<a.MESAJ>> ELSE <<>>) \o TextsFor(Tail(feed), line)

\* worker p is in, or has completed, a get_line_status call that missed the
\* status cache and got this call's answer from the alerts provider
Uncached(p) ==
    /\ op[p] = "status"
    /\ ~sloc[p].cached
    /\ sloc[p].alert_clock # None

\* the minutes of day of the departures of a schedule
DepartureMinutes(schedule) ==
    {schedule.G[i].hh * 60 + schedule.G[i].mm : i \in 1..Len(schedule.G)}
    \cup {schedule.D[i].hh * 60 + schedule.D[i].mm : i \in 1..Len(schedule.D)}

\* the operating hours say the line is not in service: get_schedule returned
\* a schedule with departures, and it is before the first or after the last
OutsideHours(p) ==
    /\ loc[p].ret # None
    /\ DepartureMinutes(loc[p].ret) # {}
    /\ \/ \A m \in DepartureMinutes(loc[p].ret) : Minutes(sloc[p].tod) < m
       \/ \A m \in DepartureMinutes(loc[p].ret) : Minutes(sloc[p].tod) > m

\* the status the operating hours alone decide
StatusByHours(p) ==
    IF OutsideHours(p) THEN LineStatus_OUT_OF_SERVICE ELSE LineStatus_ACTIVE

\* C8: an uncached get_line_status whose feed holds an alert for the line
\* returns WARNING with the texts of all the line's alerts, in feed order,
\* whatever the time of day; it never enters the operating-hours check
\* (no get_schedule, no time of day read for it).
C8_AlertsTakePrecedence ==
    \A p \in Workers :
        (/\ Uncached(p)
         /\ sloc[p].alert_error = NoneStr
         /\ TextsFor(sloc[p].feed, arg[p]) # <<>>)
        => /\ pc[p] = "done"
           /\ sloc[p].result.status = LineStatus_WARNING
           /\ sloc[p].result.messages = TextsFor(sloc[p].feed, arg[p])
           /\ sloc[p].operation_info = None
           /\ sloc[p].tod = None
           /\ loc[p] = InitLoc
           /\ hist[p] = InitHist

\* C8 witness: WARNING with two alert texts was returned at 03:00, outside
\* the hours of the schedule persisted for the line today
C8_Witness ==
    \E p \in Workers :
        /\ Uncached(p) /\ pc[p] = "done"
        /\ sloc[p].result.status = LineStatus_WARNING
        /\ Len(sloc[p].result.messages) = 2
        /\ sloc[p].alert_clock = [hour |-> 3, minute |-> 0]
        /\ \E r \in db : /\ r.line_code = arg[p] /\ r.valid_for = today
                         /\ r.source_status = "SUCCESS"
                         /\ \A m \in DepartureMinutes(r.payload) : m > 3 * 60
                         /\ DepartureMinutes(r.payload) # {}

\* C9: an uncached get_line_status whose feed holds no alert for the line
\* returns OUT_OF_SERVICE exactly when the schedule has departures and the
\* time of day is before the first or after the last of them, and ACTIVE
\* otherwise: inside the hours, with a schedule without departures, and
\* when get_schedule raised.
C9_HoursDecideWithoutAlerts ==
    \A p \in Workers :
        (/\ Uncached(p)
         /\ pc[p] = "done"
         /\ sloc[p].alert_error = NoneStr
         /\ TextsFor(sloc[p].feed, arg[p]) = <<>>)
        => /\ sloc[p].result.status = StatusByHours(p)
           /\ sloc[p].result.status = LineStatus_OUT_OF_SERVICE
                <=> ~sloc[p].operation_info.in_operation
           /\ (loc[p].ret = None \/ DepartureMinutes(loc[p].ret) = {})
                => sloc[p].result.status = LineStatus_ACTIVE

\* C9 witness: with announcements for other lines only, ACTIVE was returned
\* at 03:00 for a schedule without departures
C9_Witness ==
    \E p \in Workers :
        /\ Uncached(p) /\ pc[p] = "done"
        /\ sloc[p].alert_error = NoneStr /\ sloc[p].feed # <<>>
        /\ TextsFor(sloc[p].feed, arg[p]) = <<>>
        /\ loc[p].ret # None /\ DepartureMinutes(loc[p].ret) = {}
        /\ sloc[p].tod = [hour |-> 3, minute |-> 0]
        /\ sloc[p].result.status = LineStatus_ACTIVE

\* C10: a get_line_status call whose alerts fetch failed (transport error
\* or timeout, unparseable response, any other exception) does not raise,
\* goes on with no alerts, and returns the status the operating hours
\* decide, never WARNING.
C10_AlertFailureIsNoAlerts ==
    \A p \in Workers :
        (Uncached(p) /\ sloc[p].alert_error # NoneStr)
        => /\ pc[p] # "raised"
           /\ sloc[p].alerts = <<>>
           /\ pc[p] = "done" =>
                /\ sloc[p].result.status # LineStatus_WARNING
                /\ sloc[p].result.status = StatusByHours(p)

\* C10 witness: after an unparseable alerts response, OUT_OF_SERVICE was
\* returned at 23:45 from the operating hours
C10_Witness ==
    \E p \in Workers :
        /\ Uncached(p) /\ pc[p] = "done"
        /\ sloc[p].alert_error = "ParseError"
        /\ sloc[p].tod = [hour |-> 23, minute |-> 45]
        /\ sloc[p].result.status = LineStatus_OUT_OF_SERVICE

\* C11: an uncached get_line_status that found no alerts and whose
\* get_schedule raised (a persistent-store read error, a KeyError of the
\* memory cache) does not raise: it returns ACTIVE with no messages, whatever
\* the time of day.
C11_HoursFailureIsActive ==
    \A p \in Workers :
        (/\ Uncached(p)
         /\ sloc[p].alerts = <<>>
         /\ loc[p].exc # NoneStr)
        => /\ pc[p] # "raised"
           /\ pc[p] = "done" =>
                /\ sloc[p].result.status = LineStatus_ACTIVE
                /\ sloc[p].result.messages = <<>>
                /\ sloc[p].result.next_service_time = None

\* C11 witness: ACTIVE was returned at 03:00 after the persistent store
\* failed to read, for a line whose persisted schedule of today starts later
C11_Witness ==
    \E p \in Workers :
        /\ Uncached(p) /\ pc[p] = "done"
        /\ sloc[p].alerts = <<>>
        /\ loc[p].exc = "PersistenceReadError"
        /\ sloc[p].tod = [hour |-> 3, minute |-> 0]
        /\ sloc[p].result.status = LineStatus_ACTIVE
        /\ \E r \in db : /\ r.line_code = arg[p] /\ r.valid_for = today
                         /\ r.source_status = "SUCCESS"
                         /\ DepartureMinutes(r.payload) # {}
                         /\ \A m \in DepartureMinutes(r.payload) : m > 3 * 60

-----------------------------------------------------------------------------
(* Properties of the service window.                                       *)

\* whether an hour is in service, case by case
HourExpected(hour, window) ==
    CASE window = None -> TRUE
      [] window # None /\ ~window.has_service -> FALSE
      [] window # None /\ window.has_service /\ ~window.wraps_midnight ->
            window.first_hour <= hour /\ hour <= window.last_hour
      [] window # None /\ window.has_service /\ window.wraps_midnight ->
            hour >= window.first_hour \/ hour <= window.last_hour

\* C12: every hour 0..23 marked by _is_hour_in_service is in service for an
\* absent window, out of service when has_service is false, inside
\* first_hour..last_hour for a window that does not wrap, and at or after
\* first_hour or at or before last_hour for one that wraps; the window
\* 6 -> 0 that wraps puts 23 and 0 in service and 5 out.
C12_HourInService ==
    \A p \in Workers :
        /\ \A i \in 1..Len(rloc[p].marks) :
              rloc[p].marks[i] = HourExpected(i - 1, rloc[p].service_hours)
        /\ (rloc[p].service_hours = MarmarayWindow /\ Len(rloc[p].marks) = 24)
              => /\ rloc[p].marks[24] = TRUE
                 /\ rloc[p].marks[6] = FALSE
                 /\ rloc[p].marks[1] = TRUE

\* C12 witness: the 24 hours are marked against the window 6 -> 0 that
\* wraps; 0 and 23 are in service, 1 to 5 are not
C12_Witness ==
    \E p \in Workers :
        /\ rloc[p].service_hours = ServiceWindow(6, 0, TRUE, TRUE)
        /\ Len(rloc[p].marks) = 24
        /\ rloc[p].marks[1] /\ rloc[p].marks[24]
        /\ \A h \in 1..5 : ~rloc[p].marks[h + 1]

-----------------------------------------------------------------------------
(* Properties of the pooled line.                                          *)

\* worker p has the response of a pooled schedule request
Pooled(p) == op[p] = "pool" /\ pc[p] = "done"

\* a sequence of "HH:MM" strings ascends strictly
Ascending(times) ==
    \A i \in 1..Len(times), j \in 1..Len(times) :
        i < j => times[i].hh * 60 + times[i].mm < times[j].hh * 60 + times[j].mm

\* the times of one direction over the payloads get_schedule returned
MemberTimes(seen, dir) ==
    UNION {IF dir = "G" THEN {seen[i].payload.G[k] : k \in 1..Len(seen[i].payload.G)}
           ELSE {seen[i].payload.D[k] : k \in 1..Len(seen[i].payload.D)}
           : i \in 1..Len(seen)}

\* C13: the pooled schedule was built from one get_schedule per member, in
\* pool order; each direction holds exactly the times of that direction of
\* all members, each once, in ascending order; a member that resolved to the
\* FETCH_FAILED sentinel adds no times and the response is still built.
C13_PoolIsSortedUnion ==
    \A p \in Workers :
        Pooled(p) =>
            LET seen == rloc[p].seen
                r == rloc[p].response
            IN /\ r # None
               /\ Len(seen) = Len(METROBUS_POOL)
               /\ \A i \in 1..Len(seen) : seen[i].line = METROBUS_POOL[i]
               /\ {r.G[k] : k \in 1..Len(r.G)} = MemberTimes(seen, "G")
               /\ {r.D[k] : k \in 1..Len(r.D)} = MemberTimes(seen, "D")
               /\ Ascending(r.G) /\ Ascending(r.D)
               /\ \A i \in 1..Len(seen) :
                     IsSentinel(seen[i].payload) =>
                        /\ MemberTimes(seen, "G") =
                             MemberTimes(SelectSeq(seen, LAMBDA x : x # seen[i]), "G")
                        /\ MemberTimes(seen, "D") =
                             MemberTimes(SelectSeq(seen, LAMBDA x : x # seen[i]), "D")

\* C13 witness: one member has G = [06:00], another G = [05:30, 07:15]; the
\* pooled G is [05:30, 06:00, 07:15]
C13_Witness ==
    \E p \in Workers :
        /\ Pooled(p)
        /\ rloc[p].seen[1].payload.G = <<TimeStr(6, 0)>>
        /\ rloc[p].seen[2].payload.G = <<TimeStr(5, 30), TimeStr(7, 15)>>
        /\ rloc[p].response.G = <<TimeStr(5, 30), TimeStr(6, 0), TimeStr(7, 15)>>

\* C14: in every pooled schedule has_service_today is true exactly when G or
\* D is non-empty, and data_status is OK when it is true and NO_SERVICE_DAY
\* when it is false.
C14_PoolFlags ==
    \A p \in Workers :
        Pooled(p) =>
            LET r == rloc[p].response
            IN /\ r.has_service_today <=> (r.G # <<>> \/ r.D # <<>>)
               /\ r.has_service_today => r.data_status = "OK"
               /\ ~r.has_service_today => r.data_status = "NO_SERVICE_DAY"

\* C14 witness: on a Sunday no member has a departure; the pooled schedule
\* has no service and is marked NO_SERVICE_DAY
C14_Witness ==
    \E p \in Workers :
        /\ Pooled(p)
        /\ \A i \in 1..Len(rloc[p].seen) :
              rloc[p].seen[i].payload.data_status = "NO_SERVICE_DAY"
        /\ rloc[p].response.G = <<>> /\ rloc[p].response.D = <<>>
        /\ ~rloc[p].response.has_service_today
        /\ rloc[p].response.data_status = "NO_SERVICE_DAY"

-----------------------------------------------------------------------------
(* Properties of the pooled forecast.                                      *)

\* worker p has the 24 hours of a pooled forecast
Forecast(p) == op[p] = "forecast" /\ pc[p] = "done"

\* the members whose schedule the forecast could use
AvailableMembers(f) ==
    {i \in 1..Len(f.read) :
        f.read[i] # None /\ f.read[i].data_status # "FETCH_FAILED"}

\* the departures of member i in hour h, in the direction asked for or in
\* both
MemberTrips(f, i, h) ==
    LET inHour(times) == Cardinality({k \in 1..Len(times) : times[k].hh = h})
    IN CASE f.direction = "G" -> inHour(f.read[i].G)
         [] f.direction = "D" -> inHour(f.read[i].D)
         [] OTHER -> inHour(f.read[i].G) + inHour(f.read[i].D)

RECURSIVE SumOver(_, _, _)
SumOver(f, S, h) ==
    IF S = {} THEN 0
    ELSE LET i == CHOOSE x \in S : TRUE
         IN MemberTrips(f, i, h) + SumOver(f, S \ {i}, h)

\* C15: when at least one member has a schedule, the trips of every hour
\* 0..23 are the sum of the available members' trips of that hour, in the
\* direction asked for or in both, and the hour is in service exactly when
\* the sum is positive.
C15_PooledTripsAreSums ==
    \A p \in Workers :
        (Forecast(p) /\ AvailableMembers(rloc[p].forecast) # {}) =>
            LET f == rloc[p].forecast
            IN \A h \in HoursOfDay :
                /\ f.hours[h].trips_per_hour = SumOver(f, AvailableMembers(f), h)
                /\ f.hours[h].in_service <=> SumOver(f, AvailableMembers(f), h) > 0

\* C15 witness: both members have a schedule with a departure at 06:00 in
\* direction G; a forecast for both directions counts 2 trips in hour 6
C15_Witness ==
    \E p \in Workers :
        /\ Forecast(p)
        /\ rloc[p].forecast.direction = NoneStr
        /\ AvailableMembers(rloc[p].forecast) = {1, 2}
        /\ MemberTrips(rloc[p].forecast, 1, 6) = 1
        /\ MemberTrips(rloc[p].forecast, 2, 6) = 1
        /\ rloc[p].forecast.hours[6].trips_per_hour = 2
        /\ rloc[p].forecast.hours[6].in_service
        /\ ~rloc[p].forecast.hours[5].in_service

\* C16: when no member has a schedule (no payload, or the sentinel), every
\* hour has the floor of 6 trips and is in service; and in every pooled
\* forecast every hour's max_capacity is at least 1.
C16_FloorAndCapacity ==
    \A p \in Workers :
        Forecast(p) =>
            LET f == rloc[p].forecast
            IN /\ AvailableMembers(f) = {} =>
                    \A h \in HoursOfDay :
                        /\ f.hours[h].trips_per_hour = 6
                        /\ f.hours[h].in_service
               /\ \A h \in HoursOfDay : f.hours[h].max_capacity >= 1

\* C16 witness: the table holds only sentinel rows for the members; every
\* hour has 6 trips, is in service, and has the capacity of 6 vehicles
C16_Witness ==
    \E p \in Workers :
        /\ Forecast(p)
        /\ db # {} /\ \A r \in db : r.source_status = "FAILED"
        /\ \A i \in 1..Len(METROBUS_POOL) :
              \E r \in db : r.line_code = METROBUS_POOL[i]
        /\ \A h \in HoursOfDay :
              /\ rloc[p].forecast.hours[h].trips_per_hour = 6
              /\ rloc[p].forecast.hours[h].in_service
              /\ rloc[p].forecast.hours[h].max_capacity = 6 * 193

-----------------------------------------------------------------------------
(* Properties of clearing the caches.                                      *)

\* the step of p that runs the memory part of IETTScheduleService.clear_cache
ScheduleClearStep(p) == pc[p] # "clear_db" /\ pc'[p] = "clear_db"

\* the step of p that runs IETTStatusService.clear_cache
StatusClearStep(p) ==
    /\ Free(p) /\ now' = now
    /\ op'[p] = "status_clear" /\ pc'[p] = "done"

\* what clear must do to cache c, giving d, for the key (or no key)
ClearedAs(c, d, target, key) ==
    IF target = AllLines
    THEN \A k \in DOMAIN c : d[k] = NoEntry
    ELSE /\ d[key] = NoEntry
         /\ \A k \in DOMAIN c \ {key} : d[k] = c[k]
         /\ (c[key] = NoEntry => d = c)

C18_ExpiredEntryIsMiss ==
    [][\A p \in Workers :
        /\ ( /\ pc[p] = "mem_read" /\ pc'[p] # "mem_read"
             /\ ~CacheContains(mem, cache_key(arg[p], loc[p].target_date)) )
           => pc'[p] = "db_lookup"
        /\ ( /\ pc[p] = "s_read" /\ pc'[p] # "s_read"
             /\ ~CacheContains(scache, arg[p]) )
           => pc'[p] = "s_alerts"]_vars

-----------------------------------------------------------------------------
(* Properties of the bounded memory cache.                                 *)

\* the keys that have an entry in cache c, expired or not
Entries(c) == {k \in DOMAIN c : c[k] # NoEntry}

\* c is full and none of its entries has expired
FullAndLive(c, maxsize) ==
    /\ Cardinality(Entries(c)) = maxsize
    /\ \A k \in Entries(c) : CacheContains(c, k)

\* the step from c to d wrote a key that had no entry in c
NewKeys(c, d) == {k \in DOMAIN c : c[k] = NoEntry /\ d[k] # NoEntry}

\* the entries of c that d has no more
Discarded(c, d) == {k \in DOMAIN c : c[k] # NoEntry /\ d[k] = NoEntry}

\* C19: the number of entries of the memory cache never exceeds its maxsize,
\* and a write of a new key into a full cache none of whose entries has
\* expired discards the least recently used entry and leaves every other
\* entry as it was.
C19_BoundedLeastRecentlyUsed ==
    /\ [](Cardinality(Entries(mem)) <= MaxSize(ScheduleMaxSize))
    /\ [][(NewKeys(mem, mem') # {} /\ FullAndLive(mem, MaxSize(ScheduleMaxSize)))
            => /\ Discarded(mem, mem') = {Head(lru.schedule)}
               /\ \A k \in Entries(mem) \ {Head(lru.schedule)} : mem'[k] = mem[k]]_vars

\* every line has been resolved in this instant, so no entry has expired;
\* the cache is full and the write for the last request has discarded the
\* entry of another line
C19_Witness ==
    /\ now = 0
    /\ \A l \in Lines : \E r \in db : r.line_code = l
    /\ Cardinality(Entries(mem)) = MaxSize(ScheduleMaxSize)
    /\ \E l \in Lines :
          /\ mem[cache_key(l, today)] = NoEntry
          /\ lru.schedule # <<>>
          /\ \E p \in Workers : pc[p] = "done" /\ arg[p] # l

-----------------------------------------------------------------------------
(* Properties of a failing upsert.                                         *)

\* the step in which the get_schedule call of p returns
Returns(p) ==
    /\ pc[p] \in {"mem_read", "db_hit", "cache_ok", "cache_failed"}
    /\ pc'[p] # pc[p] /\ loc'[p].exc = NoneStr

\* C20: when the upsert of a freshly fetched payload raises, the failure
\* neither propagates nor changes the result: the call never raises, and it
\* returns the fetched payload (not the FETCH_FAILED sentinel) and writes it
\* to the memory cache.
C20_StoreFailureKeepsPayload ==
    /\ [](\A p \in Workers : hist[p].write_failed => pc[p] # "raised")
    /\ [][\A p \in Workers :
            (hist[p].write_failed /\ Returns(p))
            => /\ loc'[p].ret = hist[p].fetched
               /\ ~IsSentinel(loc'[p].ret)
               /\ mem'[cache_key(arg[p], loc[p].target_date)] # NoEntry
               /\ mem'[cache_key(arg[p], loc[p].target_date)].value = hist[p].fetched]_vars

-----------------------------------------------------------------------------
(* Properties of a failing persistent read.                                *)

\* C21: when the persistent read of get_schedule (or opening its session)
\* fails, the error is not surfaced to the caller: the call does not raise,
\* it goes on as after a miss, to the provider, and the caller receives a
\* record.
C21_ReadFailureIsMiss ==
    /\ [](\A p \in Workers :
            hist[p].read_failed =>
                /\ pc[p] # "raised"
                /\ pc[p] = "done" => loc[p].ret # None)
    /\ [][\A p \in Workers :
            (~hist[p].read_failed /\ hist'[p].read_failed)
            => pc'[p] = "fetch_wait"]_vars

-----------------------------------------------------------------------------
(* Properties of the sentinel.                                             *)

\* every record in the system: returned, held in memory, or persisted
Records ==
    {loc[p].ret : p \in Workers}
    \cup {mem[k].value : k \in Entries(mem)}
    \cup {r.payload : r \in db}

\* a record of a day without planned service
NoServiceDay(x) == x # None /\ ~x.has_service_today

SentinelStored(p) == pc[p] = "store_failed" /\ pc'[p] = "cache_failed" /\ hist'[p].stored

\* C23: when the upstream fetch fails, the sentinel is upserted with status
\* FAILED and an error message and is written to the memory cache under the
\* key of the line and the date, so that a further get_schedule for the key
\* within the TTL returns the sentinel and makes no upstream call.
C23_SentinelStoredAndCached ==
    [][\A p \in Workers :
        LET k == cache_key(arg[p], loc[p].target_date) IN
        /\ (hist[p].up_failed /\ SentinelStored(p))
           => \E r \in db' :
                 /\ SameKey(r, arg[p], loc[p].target_date, ScheduleDayType(p))
                 /\ r.source_status = "FAILED" /\ r.error_message # NoneStr
                 /\ IsSentinel(r.payload)
        /\ (hist[p].up_failed /\ pc[p] = "cache_failed" /\ pc'[p] # pc[p])
           => CacheContains(mem', k) /\ IsSentinel(mem'[k].value)
        /\ (Completes(p) /\ hist[p].saw_sentinel /\ CacheContains(mem, k))
           => /\ pc'[p] = "done"
              /\ IsSentinel(loc'[p].ret)
              /\ ~hist'[p].upstream]_vars

-----------------------------------------------------------------------------
(* Properties of the service hours.                                        *)

\* the request for the service hours of p has been answered
HoursReturned(p) == op[p] = "hours" /\ pc[p] = "done"

\* ... from the schedule that get_schedule returned
FromSchedule(p) == HoursReturned(p) /\ rloc[p].resolved /\ loc[p].exc = NoneStr

\* the direction lists that count for a request
Considered(direction) == IF direction = NoneStr THEN {"G", "D"} ELSE {direction}

\* the times of the schedule x that count for the direction and parse
ParsedIn(x, direction) ==
    {t \in UNION {Range(IF d = "G" THEN x.G ELSE x.D) : d \in Considered(direction)} :
        t.hh \in 0..23 /\ t.mm \in 0..59}

\* the hours of the day that the answer to p leaves in service
InService(p) == {h \in HoursOfDay : rloc[p].marks[h + 1]}

\* C24: the service hours of a schedule without times whose status is
\* FETCH_FAILED are inconclusive: every hour of the day is in service,
\* with a requested direction and without.
C24_FailedFetchIsInconclusive ==
    \A p \in Workers :
        (/\ FromSchedule(p)
         /\ loc[p].ret.data_status = "FETCH_FAILED"
         /\ ParsedIn(loc[p].ret, rloc[p].direction) = {})
        => /\ rloc[p].service_hours = None
           /\ InService(p) = HoursOfDay

\* the upstream fetch of this request failed, a direction was requested and
\* all 24 hours are in service
C24_Witness ==
    \E p \in Workers :
        /\ FromSchedule(p) /\ hist[p].up_failed
        /\ loc[p].ret.data_status = "FETCH_FAILED"
        /\ rloc[p].direction = "G"
        /\ InService(p) = HoursOfDay

\* the list of the direction opposite to the requested one
OppositeList(x, direction) == IF direction = "G" THEN x.D ELSE x.G

\* C25: for a requested direction G or D without times, in a schedule that
\* is not fetch-failed, the window has has_service false whenever the
\* opposite direction has times or the schedule says that the line has
\* service that day; every hour is then out of service.
C25_EmptyDirectionHasNoService ==
    \A p \in Workers :
        (/\ FromSchedule(p)
         /\ rloc[p].direction \in {"G", "D"}
         /\ ParsedIn(loc[p].ret, rloc[p].direction) = {}
         /\ loc[p].ret.data_status # "FETCH_FAILED"
         /\ \/ OppositeList(loc[p].ret, rloc[p].direction) # <<>>
            \/ loc[p].ret.has_service_today)
        => /\ rloc[p].service_hours # None
           /\ ~rloc[p].service_hours.has_service
           /\ InService(p) = {}

\* direction G without times while D has times and has_service_today is
\* false: no hour is in service
C25_Witness ==
    \E p \in Workers :
        /\ FromSchedule(p)
        /\ rloc[p].direction = "G"
        /\ loc[p].ret.G = <<>> /\ loc[p].ret.D # <<>>
        /\ ~loc[p].ret.has_service_today
        /\ InService(p) = {}

\* C26: without a requested direction, a schedule without times for a day
\* type without planned service (NO_SERVICE_DAY, or NO_DATA with
\* has_service_today false) gives has_service false: no hour is in service.
C26_NoPlannedServiceDay ==
    \A p \in Workers :
        (/\ FromSchedule(p)
         /\ rloc[p].direction = NoneStr
         /\ ParsedIn(loc[p].ret, NoneStr) = {}
         /\ \/ loc[p].ret.data_status = "NO_SERVICE_DAY"
            \/ loc[p].ret.data_status = "NO_DATA" /\ ~loc[p].ret.has_service_today)
        => /\ rloc[p].service_hours # None
           /\ ~rloc[p].service_hours.has_service
           /\ InService(p) = {}

\* no direction, status NO_DATA, has_service_today false: no hour in service
C26_Witness ==
    \E p \in Workers :
        /\ FromSchedule(p)
        /\ rloc[p].direction = NoneStr
        /\ loc[p].ret.data_status = "NO_DATA" /\ ~loc[p].ret.has_service_today
        /\ InService(p) = {}

\* C27: a schedule with at least one parseable time in the directions that
\* count gives has_service true and wraps_midnight false, first_hour the
\* hour of the earliest and last_hour the hour of the latest such time,
\* first_hour <= last_hour, and the hours in service are that range.
C27_WindowOfTheTimes ==
    \A p \in Workers :
        LET T == ParsedIn(loc[p].ret, rloc[p].direction)
            w == rloc[p].service_hours
        IN (FromSchedule(p) /\ T # {})
           => /\ w # None
              /\ w.has_service /\ ~w.wraps_midnight
              /\ \E t \in T : /\ t.hh = w.first_hour
                              /\ \A u \in T : t.hh < u.hh \/ (t.hh = u.hh /\ t.mm <= u.mm)
              /\ \E t \in T : /\ t.hh = w.last_hour
                              /\ \A u \in T : u.hh < t.hh \/ (u.hh = t.hh /\ u.mm <= t.mm)
              /\ w.first_hour <= w.last_hour
              /\ InService(p) = w.first_hour..w.last_hour

\* the list of G is out of order and the window runs from the hour of its
\* earliest time to the hour of its latest, over more than one hour
C27_Witness ==
    \E p \in Workers :
        /\ FromSchedule(p)
        /\ rloc[p].direction = "G"
        /\ Len(loc[p].ret.G) = 2
        /\ TimeLT(_parse_time(loc[p].ret.G[2]), _parse_time(loc[p].ret.G[1]))
        /\ rloc[p].service_hours.first_hour < rloc[p].service_hours.last_hour
        /\ InService(p) = 5..23

\* the request of p was answered from the topology of the rail lines
FromTopology(p) ==
    /\ HoursReturned(p)
    /\ RailPrefixed(arg[p]) /\ arg[p] # MARMARAY
    /\ rloc[p].metro_line # None
    /\ rloc[p].metro_line.first_time.hh \in 0..23
    /\ rloc[p].metro_line.first_time.mm \in 0..59
    /\ rloc[p].metro_line.last_time.hh \in 0..23
    /\ rloc[p].metro_line.last_time.mm \in 0..59

\* C28: when the topology gives both a first and a last time for a rail
\* line, the window is taken from them and no schedule is resolved:
\* first_hour and last_hour are their hours, and wraps_midnight is true
\* exactly when last_time < first_time.
C28_TopologyTimesUsedDirectly ==
    /\ \A p \in Workers :
          FromTopology(p) =>
              LET f == rloc[p].metro_line.first_time
                  l == rloc[p].metro_line.last_time
                  w == rloc[p].service_hours
              IN /\ w # None /\ w.has_service
                 /\ w.first_hour = f.hh /\ w.last_hour = l.hh
                 /\ w.wraps_midnight <=> (l.hh < f.hh \/ (l.hh = f.hh /\ l.mm < f.mm))
                 /\ ~rloc[p].resolved
                 /\ loc[p].ret = None /\ ~hist[p].upstream /\ ~hist[p].used_db
    /\ \A p \in Workers :
          (op[p] = "hours" /\ pc[p] \notin {"idle", "done", "raised"})
          => ~(RailPrefixed(arg[p]) /\ HasTopologyTimes(rloc[p].metro_line))

\* a rail line whose last time is after midnight: the window wraps, and the
\* hours in service are those from the first hour on and up to the last
C28_Witness ==
    \E p \in Workers :
        /\ FromTopology(p)
        /\ rloc[p].metro_line.last_time.hh < rloc[p].metro_line.first_time.hh
        /\ rloc[p].service_hours.wraps_midnight
        /\ InService(p) = (6..23) \cup {0}
        /\ (\A k \in DOMAIN mem : mem[k] = NoEntry) /\ db = {}

\* C29: in every window produced, first_hour and last_hour are null only
\* when has_service is false, and they are null together.
C29_BoundsNullOnlyWithoutService ==
    \A p \in Workers :
        (HoursReturned(p) /\ rloc[p].service_hours # None)
        => LET w == rloc[p].service_hours
           IN /\ (w.first_hour = NoHour \/ w.last_hour = NoHour) => ~w.has_service
              /\ w.first_hour = NoHour <=> w.last_hour = NoHour
              /\ w.has_service => w.first_hour \in HoursOfDay /\ w.last_hour \in HoursOfDay

\* a window without bounds was produced, for a line without service
C29_Witness ==
    \E p \in Workers :
        /\ HoursReturned(p) /\ rloc[p].service_hours # None
        /\ rloc[p].service_hours.first_hour = NoHour
        /\ rloc[p].service_hours.last_hour = NoHour
        /\ ~rloc[p].service_hours.has_service

-----------------------------------------------------------------------------
(* Properties of the status resolver: the next service time.               *)

\* get_line_status has answered p with OUT_OF_SERVICE
OutOfService(p) ==
    /\ op[p] = "status" /\ pc[p] = "done"
    /\ sloc[p].result.status = LineStatus_OUT_OF_SERVICE

\* the departures of both directions of the schedule x, as "HH:MM"
Departures(x) == {t \in Range(x.G) \cup Range(x.D) : t.hh \in 0..23 /\ t.mm \in 0..59}

\* the departure d is before the time of day c, and after it
DepartsBefore(d, c) == d.hh < c.hour \/ (d.hh = c.hour /\ d.mm < c.minute)
DepartsAfter(d, c) == d.hh > c.hour \/ (d.hh = c.hour /\ d.mm > c.minute)

\* C30: whenever get_line_status answers OUT_OF_SERVICE, next_service_time
\* is the first departure of the line's schedule of the day as HH:MM, when
\* the time of day is before the first departure and when it is after the
\* last one. An answer from the status cache is one that was computed so.
C30_NextServiceIsFirstDeparture ==
    /\ \A p \in Workers :
          (OutOfService(p) /\ ~sloc[p].cached)
          => LET T == Departures(loc[p].ret)
                 next_time == sloc[p].result.next_service_time
             IN /\ next_time \in T
                /\ \A t \in T : t = next_time \/ StrLT(next_time, t)
                /\ \/ DepartsAfter(next_time, sloc[p].tod)
                   \/ \A t \in T : DepartsBefore(t, sloc[p].tod)
    /\ \A p \in Workers :
          OutOfService(p)
          => /\ sloc[p].result.next_service_time # None
             /\ sloc[p].result.next_service_time.hh \in 0..23
             /\ sloc[p].result.next_service_time.mm \in 0..59
             /\ sloc[p].result.messages
                    = <<OutOfServiceMessage(sloc[p].result.next_service_time)>>

\* the time of day is after the last of several departures, and the next
\* service time is the first of them
C30_Witness ==
    \E p \in Workers :
        /\ OutOfService(p) /\ ~sloc[p].cached
        /\ \A t \in Departures(loc[p].ret) : DepartsBefore(t, sloc[p].tod)
        /\ \E t \in Departures(loc[p].ret) : StrLT(sloc[p].result.next_service_time, t)

\* the time of day is before the first departure
C30_BeforeFirst ==
    \E p \in Workers :
        /\ OutOfService(p) /\ ~sloc[p].cached
        /\ \A t \in Departures(loc[p].ret) : DepartsAfter(t, sloc[p].tod)

-----------------------------------------------------------------------------
(* Properties of the alerts of a line.                                     *)

\* _fetch_alerts has read the provider's answer for the request of p
AlertsRead(p) ==
    /\ op[p] = "status" /\ ~sloc[p].cached
    /\ sloc[p].alert_clock # None /\ sloc[p].alert_error = NoneStr

\* the announcement is for the line, ignoring case, and has a text
ForTheLine(table, line_code) ==
    /\ table.HATKODU # NoneStr
    /\ Upper(Strip(table.HATKODU)) = Upper(line_code)
    /\ table.MESAJ # ""

\* the timestamp of the announcement, in minutes from today's midnight, as
\* the code dates it: None without a timestamp that parses
Timestamp(table, clock) ==
    IF table.GUNCELLEME_SAATI = None THEN None
    ELSE _parse_update_time(table.GUNCELLEME_SAATI, clock)

\* the announcement has a timestamp, and it is within the last 24 hours
WithinLast24Hours(table, clock) ==
    /\ Timestamp(table, clock) # None
    /\ Timestamp(table, clock).minutes >= Minutes(clock) - 24 * 60

\* the announcement has a timestamp that is older than 24 hours
OlderThan24Hours(table, clock) ==
    /\ Timestamp(table, clock) # None
    /\ Timestamp(table, clock).minutes < Minutes(clock) - 24 * 60

\* the texts of a sequence of announcements
Texts(tables) == [i \in 1..Len(tables) |-> tables[i].MESAJ]

\* C31, as stated: the active alerts of a line are exactly the announcements
\* for the line (ignoring case) with a text whose timestamp is within the
\* last 24 hours, and the WARNING messages are all of their texts.
C31_ActiveAlertsWithin24Hours ==
    \A p \in Workers :
        AlertsRead(p) =>
            LET Active(table) == /\ ForTheLine(table, arg[p])
                                 /\ WithinLast24Hours(table, sloc[p].alert_clock)
            IN sloc[p].alerts = Texts(SelectSeq(sloc[p].feed, Active))

\* what the code does instead: the active alerts of a line are the
\* announcements for the line with a text, except those whose timestamp
\* parses and is older than 24 hours; an announcement without a timestamp
\* that parses is active. The WARNING messages are all of their texts.
ActiveAlertsNotOlderThan24Hours ==
    \A p \in Workers :
        AlertsRead(p) =>
            LET Active(table) == /\ ForTheLine(table, arg[p])
                                 /\ ~OlderThan24Hours(table, sloc[p].alert_clock)
                active == Texts(SelectSeq(sloc[p].feed, Active))
            IN /\ sloc[p].alerts = active
               /\ active # <<>> =>
                     /\ pc[p] = "done"
                     /\ sloc[p].result.status = LineStatus_WARNING
                     /\ sloc[p].result.messages = active

\* get_line_status has answered p without alerts from a schedule of a day
\* without planned service: no departure in either direction, and not the
\* sentinel of a failed fetch
AnsweredForNoServiceDay(p) ==
    /\ Uncached(p) /\ pc[p] = "done"
    /\ sloc[p].alert_error = NoneStr /\ sloc[p].alerts = <<>>
    /\ NoServiceDay(loc[p].ret)
    /\ loc[p].ret.G = <<>> /\ loc[p].ret.D = <<>>
    /\ loc[p].ret.data_status \in {"NO_SERVICE_DAY", "NO_DATA"}

\* the service window of a day without planned service has no service
NoServiceDayHasNoWindow ==
    \A p \in Workers :
        AnsweredForNoServiceDay(p)
        => /\ ScheduleWindow(loc[p].ret, NoneStr) # None
           /\ ~ScheduleWindow(loc[p].ret, NoneStr).has_service
           /\ \A h \in HoursOfDay :
                 ~_is_hour_in_service(h, ScheduleWindow(loc[p].ret, NoneStr))

\* C32: for a line without alerts whose schedule of today is a genuine
\* no-service day, the service window has has_service false, the current
\* hour is not in service, and get_line_status answers OUT_OF_SERVICE and
\* not ACTIVE.
C32_NoServiceDayIsOutOfService ==
    /\ NoServiceDayHasNoWindow
    /\ \A p \in Workers :
          AnsweredForNoServiceDay(p)
          => sloc[p].result.status = LineStatus_OUT_OF_SERVICE

-----------------------------------------------------------------------------
(* Properties of the status cache.                                         *)

\* p calls get_line_status in this step
StatusCalled(p) == Free(p) /\ op'[p] = "status" /\ pc'[p] \in {"s_read", "s_alerts"}

\* the call of p that found an entry of the status cache leaves in this step
StatusReadLeaves(p) == pc[p] = "s_read" /\ pc'[p] # "s_read"

\* a call that found a live entry returns its value and has fetched no
\* alerts and resolved no schedule
ServedFromStatusCache(p) ==
    /\ pc'[p] = "done"
    /\ scache[arg[p]] # NoEntry
    /\ sloc'[p].result = scache[arg[p]].value
    /\ sloc'[p].alert_clock = None
    /\ loc'[p] = InitLoc /\ ~hist'[p].upstream /\ ~hist'[p].used_db

\* the first call after the expiry of the entry fetches the alerts again,
\* and resolves the schedule again unless there are alerts
StatusMissReevaluates ==
    /\ [][\A p \in Workers :
            (StatusCalled(p) /\ ~CacheContains(scache, arg'[p]))
            => pc'[p] = "s_alerts"]_vars
    /\ [](\A p \in Workers :
            (Uncached(p) /\ pc[p] = "done")
            => (sloc[p].alerts = <<>> => (loc[p].ret # None \/ loc[p].exc # NoneStr)))

\* C33: the result of get_line_status is cached per line code for the
\* status TTL: a call for a line code whose entry is within its TTL returns
\* the result computed before, without fetching alerts or resolving the
\* schedule again, and the first call after the expiry evaluates both again.
C33_StatusCachedForTheTTL ==
    /\ [][\A p \in Workers :
            /\ (StatusCalled(p) /\ CacheContains(scache, arg'[p])) => pc'[p] = "s_read"
            /\ StatusReadLeaves(p) => ServedFromStatusCache(p)]_vars
    /\ StatusMissReevaluates

\* the same, for a call that reads the entry before the TTL has elapsed
StatusCachedWhileLive ==
    [][\A p \in Workers :
        /\ (StatusCalled(p) /\ CacheContains(scache, arg'[p])) => pc'[p] = "s_read"
        /\ (StatusReadLeaves(p) /\ CacheContains(scache, arg[p]))
           => ServedFromStatusCache(p)]_vars

-----------------------------------------------------------------------------
(* Properties of the persisted sentinel.                                   *)

\* the row persisted for the key of the call of p
KeyRows(rows, p) ==
    {r \in rows : SameKey(r, arg[p], loc[p].target_date,
                          day_type_for_date(loc[p].target_date))}

\* C34: a persisted FAILED sentinel is not served from the persistent store:
\* a get_schedule that misses memory while the row of its key is FAILED
\* calls upstream again, and when upstream answers and the upsert goes
\* through, the row becomes a SUCCESS row and the call returns its payload,
\* not the sentinel.
C34_PersistedSentinelNotServed ==
    [][\A p \in Workers :
        /\ (pc[p] = "db_lookup" /\ pc'[p] = "db_hit")
           => /\ ~IsSentinel(loc'[p].payload)
              /\ loc'[p].record.source_status = "SUCCESS"
        /\ (/\ pc[p] = "db_lookup" /\ pc'[p] # "db_lookup"
            /\ \E r \in KeyRows(db, p) : r.source_status = "FAILED"
            /\ ~hist'[p].read_failed)
           => pc'[p] = "fetch_wait" /\ hist'[p].upstream
        /\ (/\ hist[p].failed_row /\ pc[p] = "store_ok" /\ pc'[p] = "cache_ok")
           => /\ KeyRows(db', p) # {}
              /\ \A r \in KeyRows(db', p) :
                    r.source_status = "SUCCESS" /\ r.payload = hist[p].fetched
        /\ (/\ hist[p].failed_row /\ pc[p] = "cache_ok" /\ pc'[p] # "cache_ok")
           => loc'[p].ret = hist[p].fetched /\ ~IsSentinel(loc'[p].ret)]_vars

\* the sentinel was persisted and cached, its memory entry expired, and the
\* next call went upstream, replaced the row and returned the schedule
C34_Witness ==
    \E p \in Workers :
        /\ op[p] = "schedule" /\ pc[p] = "done"
        /\ hist[p].failed_row /\ hist[p].upstream /\ ~hist[p].up_failed
        /\ now >= ScheduleTTL
        /\ loc[p].ret.data_status = "OK"
        /\ \A r \in KeyRows(db, p) : r.source_status = "SUCCESS"

-----------------------------------------------------------------------------
(* Properties of concurrent calls for one key.                             *)

\* C35: under any interleaving of concurrent get_schedule calls for one
\* line and date, a SUCCESS row persisted for (line_code, valid_for,
\* day_type) is never replaced by the FAILED row of the sentinel of another
\* request whose own fetch failed.
C35_SuccessRowNotReplacedBySentinel ==
    [][\A r \in db :
        r.source_status = "SUCCESS"
        => \A q \in db' :
              SameKey(q, r.line_code, r.valid_for, r.day_type)
              => q.source_status = "SUCCESS"]_vars

\* all calls have completed: no worker is inside get_schedule
AllCompleted == \A p \in Workers : Free(p)

\* C36: once all in-flight get_schedule calls for a key have completed,
\* with no clear in between and persistence succeeding, the payload held in
\* the memory cache for (line_code, date) equals the payload of the row
\* persisted for the key, for every interleaving of concurrent cache-miss
\* requests whose fetches returned different results.
C36_MemoryEqualsPersisted ==
    (/\ AllCompleted
     /\ \A p \in Workers : /\ ~hist[p].write_failed /\ ~hist[p].read_failed
                           /\ ~hist[p].up_failed
                           /\ (hist[p].upstream => hist[p].stored))
    => \A k \in DOMAIN mem :
          CacheContains(mem, k)
          => \A r \in db :
                SameKey(r, k[1], k[2], day_type_for_date(k[2]))
                => r.payload = mem[k].value

-----------------------------------------------------------------------------
(* Properties of the pooled schedule when the provider fails.              *)

\* every member of the pool resolved to the sentinel of a failed fetch
AllMembersFailed(p) ==
    /\ Pooled(p)
    /\ \A i \in 1..Len(rloc[p].seen) : IsSentinel(rloc[p].seen[i].payload)

\* every member of the pool resolved to a schedule of a day without service
AllMembersWithoutService(p) ==
    /\ Pooled(p)
    /\ \A i \in 1..Len(rloc[p].seen) :
          /\ NoServiceDay(rloc[p].seen[i].payload)
          /\ rloc[p].seen[i].payload.data_status # "FETCH_FAILED"

\* C37: when every member of the pool resolves to a FETCH_FAILED sentinel,
\* the data_status of the pooled schedule is not the one it has when every
\* member has no planned service today (NO_SERVICE_DAY, C14).
C37_FailedPoolDistinguishable ==
    /\ \A p \in Workers :
          AllMembersWithoutService(p) => rloc[p].response.data_status = "NO_SERVICE_DAY"
    /\ \A p \in Workers :
          AllMembersFailed(p) => rloc[p].response.data_status # "NO_SERVICE_DAY"

-----------------------------------------------------------------------------
(* Properties of the 24-hour cutoff of the alerts.                         *)

-----------------------------------------------------------------------------
(* Properties of the shape of a status result.                             *)

\* the values get_line_status has returned and the values it holds in the
\* status cache
StatusValues ==
    {sloc[p].result : p \in {q \in Workers : op[q] = "status" /\ pc[q] = "done"}}
    \cup {scache[l].value : l \in {k \in DOMAIN scache : scache[k] # NoEntry}}

\* C39: every value returned by get_line_status, fresh or from the cache,
\* has a status among ACTIVE, WARNING and OUT_OF_SERVICE; WARNING has
\* messages and no next_service_time, ACTIVE has no messages and no
\* next_service_time, OUT_OF_SERVICE has exactly one message and a
\* next_service_time.
C39_StatusResultShape ==
    \A r \in StatusValues :
        /\ r # None
        /\ r.status \in {LineStatus_ACTIVE, LineStatus_WARNING, LineStatus_OUT_OF_SERVICE}
        /\ r.status = LineStatus_WARNING
              => Len(r.messages) >= 1 /\ r.next_service_time = None
        /\ r.status = LineStatus_ACTIVE
              => r.messages = <<>> /\ r.next_service_time = None
        /\ r.status = LineStatus_OUT_OF_SERVICE
              => Len(r.messages) = 1 /\ r.next_service_time # None

\* an OUT_OF_SERVICE result with its one message and its time was returned
\* from the status cache
C39_Witness ==
    \E p \in Workers :
        /\ op[p] = "status" /\ pc[p] = "done" /\ sloc[p].cached
        /\ sloc[p].result.status = LineStatus_OUT_OF_SERVICE
        /\ Len(sloc[p].result.messages) = 1
        /\ sloc[p].result.next_service_time # None

-----------------------------------------------------------------------------
(* Properties of clearing the schedule of one line.                        *)

\* worker p has just completed clear_cache(l): nothing else has run since
JustCleared(p, l) == op[p] = "none" /\ pc[p] = "idle" /\ arg[p] = l

\* the rows the store holds for line l, of every date
RowsOfLine(rows, l) == {r \in rows : r.line_code = l}

\* the memory entries of the lines other than l
EntriesOfOthers(c, l) == [k \in {x \in DOMAIN c : x[1] # l} |-> c[k]]

\* C40: once clear_cache(line_code) has completed, with its delete
\* committed, the memory cache has no entry for the line today and the
\* store has no row for the line, of any date; a get_schedule that finds
\* neither calls upstream; the clear leaves the memory entries and the rows
\* of every other line as they were; a delete that fails leaves the store as
\* it was and clear_cache returns without raising.
C40_ClearedLineIsFetchedAgain ==
    /\ [](\A p \in Workers, l \in Lines :
            (JustCleared(p, l) /\ ~rloc[p].rolled_back) =>
                /\ mem[cache_key(l, today)] = NoEntry
                /\ RowsOfLine(db, l) = {})
    /\ [][\A p \in Workers :
            /\ (ScheduleClearStep(p) /\ arg'[p] \in Lines) =>
                  /\ EntriesOfOthers(mem', arg'[p]) = EntriesOfOthers(mem, arg'[p])
                  /\ db' = db
            /\ (pc[p] = "clear_db" /\ pc'[p] # "clear_db" /\ arg[p] \in Lines) =>
                  /\ mem' = mem
                  /\ \A l \in Lines \ {arg[p]} : RowsOfLine(db', l) = RowsOfLine(db, l)
                  /\ rloc'[p].rolled_back => db' = db
                  /\ JustCleared(p, arg[p])'
            /\ ( /\ Free(p) /\ ~Free(p)' /\ op'[p] = "schedule"
                 /\ mem[cache_key(arg'[p], today)] = NoEntry )
               => pc'[p] = "db_lookup"
            /\ ( /\ pc[p] = "db_lookup" /\ pc'[p] # "db_lookup"
                 /\ RowsOfLine(db, arg[p]) = {}
                 /\ ~hist'[p].read_failed )
               => pc'[p] = "fetch_wait" /\ hist'[p].upstream]_vars

\* on the second day a clear of one line took its entry out of memory and
\* its rows of both days out of the store, while the entry and the row of
\* the other line stayed
C40_Witness ==
    \E p \in Workers, l \in Lines, m \in Lines :
        /\ l # m
        /\ JustCleared(p, l) /\ ~rloc[p].rolled_back
        /\ cache_key(l, today) \in rloc[p].had
        /\ \E r \in rloc[p].deleted, q \in rloc[p].deleted :
              r.line_code = l /\ q.line_code = l /\ r.valid_for # q.valid_for
        /\ CacheContains(mem, cache_key(m, today))
        /\ RowsOfLine(db, m) # {}

\* a delete that failed: clear_cache has returned and the rows of the line
\* are still in the store
C40_RolledBack ==
    \E p \in Workers, l \in Lines :
        /\ JustCleared(p, l) /\ rloc[p].rolled_back
        /\ mem[cache_key(l, today)] = NoEntry
        /\ RowsOfLine(db, l) # {}
====
